---- MODULE Spec2Model ----
(***************************************************************************)
(* WD1770 floppy-disk-controller emulator (luisfcorreia/wd1770-sd).        *)
(*                                                                         *)
(* The model follows src/wd1770/FdcDevice.cpp (register file, command      *)
(* decoder, sequencing state machine, sector gateway) and the slot         *)
(* bindings of src/wd1770/DiskManager.cpp.  Every handler of the super     *)
(* loop is one action.  Image geometry is scaled down (sectors of a few    *)
(* bytes) so that whole sector transfers are explored byte by byte.        *)
(* SpecGeometry applies the loader's classifier and the gateway's offset   *)
(* expressions to files of real size; SpecBus follows the data-bus pins    *)
(* through the polls of handleBus().                                       *)
(***************************************************************************)
EXTENDS Integers, Sequences, FiniteSets, TLC

VARIABLES
  fdc,               \* FDCState fdc (FdcDevice.h:68-90)
  activeDrive,       \* FdcDevice::activeDrive
  disks,             \* DiskManager::disks[MAX_DRIVES]
  loadedImageIndex,  \* DiskManager::loadedImageIndex[MAX_DRIVES]
  files,             \* content of the image files on the storage backend
  host,              \* the repertoire of the host driver in this run (never changes)
  bus,               \* bus pins and FdcDevice::lastCS, dataBusDriven, dataValidUntil
  probe,             \* arguments and results of the geometry functions applied
  config             \* the file /lastimg.cfg on the card, and the bindings at the last saveConfig()

vars == <<fdc, activeDrive, disks, loadedImageIndex, files, host, bus, probe, config>>

----------------------------------------------------------------------------
(* Program constants                                                       *)

CMD_RESTORE       == 0
CMD_SEEK          == 16
CMD_STEP          == 32
CMD_STEP_IN       == 64
CMD_STEP_OUT      == 96
CMD_READ_SECTOR   == 128
CMD_READ_SECTORS  == 144
CMD_WRITE_SECTOR  == 160
CMD_WRITE_SECTORS == 176
CMD_READ_ADDRESS  == 192
CMD_FORCE_INT     == 208

ST_BUSY          == 1
ST_DRQ           == 2
ST_TRACK00       == 4
ST_RNF           == 16
ST_WRITE_PROTECT == 64

SIZE_TIMEX_FDD3000_SS == 163840
SIZE_TIMEX_FDD3000_DS == 327680
SIZE_CPC_40T          == 184320
SIZE_35_DD            == 737280
SIZE_525_DD           == 368640

MAX_TRACKS == 84
SECTOR_BUFFER_SIZE == 1024
MAX_DRIVES == 2

STEP_TIME_6MS  == 6000
STEP_TIME_12MS == 12000
STEP_TIME_20MS == 20000
STEP_TIME_30MS == 30000

READ_ADDRESS_LENGTH == 6

UINT8 == 256
\* stands for every uint32_t value of 2^31 and above, which the model only
\* compares with file lengths
INT_MAX == 2147483647

----------------------------------------------------------------------------
(* Bounds of the model                                                     *)

\* bytes per sector of the flat image of the catalog
SectorSizeFlat == 2
\* tracks of the catalog's images
ImageTracks == 2
\* sectors per track of the catalog's images
ImageSectors == 2
\* length of the disk header and of each track header of the headered image
HeaderLen == 1
\* sectors' worth of bytes of one image file that sector writes have changed or appended
MaxDirtySectors == 1
MaxSeekTrack == 2

----------------------------------------------------------------------------
(* Arithmetic helpers                                                      *)

Min(a, b) == IF a < b THEN a ELSE b
Max(a, b) == IF a > b THEN a ELSE b

\* (v & mask) for the masks the decoder uses
AndF0(v) == (v \div 16) * 16
AndE0(v) == (v \div 32) * 32
And03(v) == v % 4
HasBit(v, b) == (v \div b) % 2 = 1
OrBit(v, b) == IF HasBit(v, b) THEN v ELSE v + b

\* conversion of an int to uint32_t: a negative value wraps to 2^32 + x
Uint32(x) == IF x < 0 THEN INT_MAX ELSE x

----------------------------------------------------------------------------
(* Image catalog and slot bindings (DiskManager)                           *)

SectorSizeHdr == SectorSizeFlat + 2

\* the image files of the catalog with the geometry loadImage() resolves for
\* each; fileTracks is the number of tracks the file really holds.  A.IMG is
\* a flat image, B.DSK a headered image, C.DSK a headered image whose header
\* declares one track more than the file holds.
Catalog ==
  <<[filename |-> "A.IMG", tracks |-> ImageTracks, sectorsPerTrack |-> ImageSectors,
     sectorSize |-> SectorSizeFlat, isExtendedDSK |-> FALSE,
     headerOffset |-> 0, trackHeaderSize |-> 0, fileTracks |-> ImageTracks],
    [filename |-> "B.DSK", tracks |-> 1, sectorsPerTrack |-> ImageSectors,
     sectorSize |-> SectorSizeHdr, isExtendedDSK |-> TRUE,
     headerOffset |-> HeaderLen, trackHeaderSize |-> HeaderLen, fileTracks |-> 1],
    [filename |-> "C.DSK", tracks |-> ImageTracks + 1, sectorsPerTrack |-> ImageSectors,
     sectorSize |-> SectorSizeFlat, isExtendedDSK |-> TRUE,
     headerOffset |-> HeaderLen, trackHeaderSize |-> HeaderLen,
     fileTracks |-> ImageTracks]>>

totalImages == Len(Catalog)

FileNames == {Catalog[i].filename : i \in 1..totalImages}

FileLength(c) ==
  c.headerOffset + c.fileTracks * (c.trackHeaderSize + c.sectorsPerTrack * c.sectorSize)

\* the byte a fresh image file holds at offset i (distinct per offset)
InitialByte(i) == 100 + i

InitialFile(c) == [i \in 1..FileLength(c) |-> InitialByte(i - 1)]

CatalogEntry(name) == CHOOSE i \in 1..totalImages : Catalog[i].filename = name

EmptyDisk ==
  [filename |-> "", size |-> 0, tracks |-> 0, sectorsPerTrack |-> 0, sectorSize |-> 0,
   writeProtected |-> FALSE, isExtendedDSK |-> FALSE, headerOffset |-> 0,
   trackHeaderSize |-> 0]

\* the descriptor loadImage() leaves in disks[drive] for catalog entry idx (0-based)
LoadedDisk(idx, size) ==
  LET c == Catalog[idx + 1] IN
  [filename |-> c.filename, size |-> size, tracks |-> c.tracks,
   sectorsPerTrack |-> c.sectorsPerTrack, sectorSize |-> c.sectorSize,
   writeProtected |-> FALSE, isExtendedDSK |-> c.isExtendedDSK,
   headerOffset |-> c.headerOffset, trackHeaderSize |-> c.trackHeaderSize]

----------------------------------------------------------------------------
(* FDC machine state                                                       *)

BufLen == Max(READ_ADDRESS_LENGTH, SectorSizeHdr)
BufIdx == 0..(BufLen - 1)

\* FdcDevice() followed by begin().  elapsed stands for
\* micros() - fdc.operationStartTime, saturated at the longest step rate;
\* discarded is a history field: the staging indices that still hold bytes
\* of a sector write cut short by FORCE INTERRUPT.
FdcBegin ==
  [status |-> ST_TRACK00, track |-> 0, sector |-> 1, data |-> 0, command |-> 0,
   currentTrack |-> 0, direction |-> 1, busy |-> FALSE, drq |-> FALSE,
   intrq |-> FALSE, dataIndex |-> 0, dataLength |-> 0,
   sectorBuffer |-> [i \in BufIdx |-> 0], elapsed |-> 0,
   stepRate |-> STEP_TIME_6MS, state |-> "IDLE", sectorsRemaining |-> 0,
   multiSector |-> FALSE, discarded |-> {}]

\* variant of GetStepRate: the rate bits are ignored
GetStepRateIgnoresBits(f) == STEP_TIME_6MS

GetStepRate(f) ==
  CASE And03(f.command) = 0 -> STEP_TIME_6MS
    [] And03(f.command) = 1 -> STEP_TIME_12MS
    [] And03(f.command) = 2 -> STEP_TIME_20MS
    [] And03(f.command) = 3 -> STEP_TIME_30MS

----------------------------------------------------------------------------
(* Type-I commands                                                         *)

CmdRestore(f) ==
  [f EXCEPT !.busy = TRUE, !.status = ST_BUSY, !.currentTrack = 0, !.track = 0,
            !.direction = -1, !.state = "SEEKING", !.stepRate = GetStepRate(f),
            !.elapsed = 0]

CmdSeek(f) ==
  [f EXCEPT !.busy = TRUE, !.status = ST_BUSY,
            !.direction = IF f.data > f.currentTrack THEN 1 ELSE -1,
            !.state = "SEEKING", !.stepRate = GetStepRate(f), !.elapsed = 0]

CmdStep(f) ==
  [f EXCEPT !.busy = TRUE, !.status = ST_BUSY, !.state = "SEEKING",
            !.stepRate = GetStepRate(f), !.elapsed = 0]

CmdStepIn(f) ==
  [f EXCEPT !.busy = TRUE, !.status = ST_BUSY, !.direction = 1,
            !.state = "SEEKING", !.stepRate = GetStepRate(f), !.elapsed = 0]

CmdStepOut(f) ==
  [f EXCEPT !.busy = TRUE, !.status = ST_BUSY, !.direction = -1,
            !.state = "SEEKING", !.stepRate = GetStepRate(f), !.elapsed = 0]

----------------------------------------------------------------------------
(* Sector gateway                                                          *)

\* variant of GatewayFail: the early return forgets to drop BUSY
GatewayFailKeepsBusy(f, st) ==
  [f EXCEPT !.status = st, !.intrq = TRUE, !.state = "IDLE"]

\* the early-return blocks of readSectorData / writeSectorData
GatewayFail(f, st) ==
  [f EXCEPT !.status = st, !.busy = FALSE, !.intrq = TRUE, !.state = "IDLE"]

\* variant of ReadOffset: a track is taken to be its sectors only, without
\* its header
ReadOffsetTrackWithoutHeader(f, disk) ==
  IF disk.isExtendedDSK
  THEN LET trackSize == disk.sectorsPerTrack * disk.sectorSize
       IN Uint32(disk.headerOffset + f.currentTrack * trackSize + disk.trackHeaderSize
                 + (f.sector - 1) * disk.sectorSize)
  ELSE Uint32((f.currentTrack * disk.sectorsPerTrack + (f.sector - 1)) * disk.sectorSize)

\* variant of ReadOffset: the sector number is taken as zero-based
ReadOffsetSectorFromZero(f, disk) ==
  IF disk.isExtendedDSK
  THEN LET trackSize == disk.trackHeaderSize + disk.sectorsPerTrack * disk.sectorSize
       IN Uint32(disk.headerOffset + f.currentTrack * trackSize + disk.trackHeaderSize
                 + f.sector * disk.sectorSize)
  ELSE Uint32((f.currentTrack * disk.sectorsPerTrack + f.sector) * disk.sectorSize)

\* uint32_t offset of readSectorData
ReadOffset(f, disk) ==
  IF disk.isExtendedDSK
  THEN LET trackSize == disk.trackHeaderSize + disk.sectorsPerTrack * disk.sectorSize
       IN Uint32(disk.headerOffset + f.currentTrack * trackSize + disk.trackHeaderSize
                 + (f.sector - 1) * disk.sectorSize)
  ELSE Uint32((f.currentTrack * disk.sectorsPerTrack + (f.sector - 1)) * disk.sectorSize)

\* variant of WriteOffset: the header of the addressed track is not skipped
WriteOffsetNoTrackHeader(f, disk) ==
  IF disk.isExtendedDSK
  THEN LET trackSize == disk.trackHeaderSize + disk.sectorsPerTrack * disk.sectorSize
       IN Uint32(disk.headerOffset + f.currentTrack * trackSize
                 + (f.sector - 1) * disk.sectorSize)
  ELSE Uint32((f.currentTrack * disk.sectorsPerTrack + (f.sector - 1)) * disk.sectorSize)

\* uint32_t offset of writeSectorData
WriteOffset(f, disk) ==
  IF disk.isExtendedDSK
  THEN LET trackSize == disk.trackHeaderSize + disk.sectorsPerTrack * disk.sectorSize
       IN Uint32(disk.headerOffset + f.currentTrack * trackSize + disk.trackHeaderSize
                 + (f.sector - 1) * disk.sectorSize)
  ELSE Uint32((f.currentTrack * disk.sectorsPerTrack + (f.sector - 1)) * disk.sectorSize)

\* File32::seek on a freshly opened file: a position past the end of the
\* file is refused and the position stays at 0 (the result is not checked)
SeekPos(file, offset) == IF offset <= Len(file) THEN offset ELSE 0

\* File32::write of n staging bytes at position pos
FileWrite(file, pos, buf, n) ==
  [i \in 1..Max(Len(file), pos + n) |->
     IF i - 1 >= pos /\ i - 1 < pos + n THEN buf[i - 1 - pos] ELSE file[i]]

\* variant of ReadSectorData: the Sector register is not compared with the
\* sectors per track
ReadSectorDataPastTrackEnd(f, disk, fl, openOk) ==
  IF disk.size = 0 THEN GatewayFail(f, ST_RNF)
  ELSE IF f.sector < 1 THEN GatewayFail(f, ST_RNF)
  ELSE IF ~openOk THEN GatewayFail(f, ST_RNF)
  ELSE LET file == fl[disk.filename]
           pos == SeekPos(file, ReadOffset(f, disk))
           bytesRead == Min(disk.sectorSize, Len(file) - pos)
           buf == [i \in BufIdx |->
                     IF i < bytesRead THEN file[pos + i + 1] ELSE f.sectorBuffer[i]]
           g == [f EXCEPT !.sectorBuffer = buf,
                          !.discarded = @ \ {i \in BufIdx : i < bytesRead}]
       IN IF bytesRead # disk.sectorSize THEN GatewayFail(g, ST_RNF)
          ELSE [g EXCEPT !.dataIndex = 0, !.dataLength = disk.sectorSize,
                         !.drq = TRUE, !.status = ST_BUSY + ST_DRQ,
                         !.state = "READING_SECTOR"]

ReadSectorData(f, disk, fl, openOk) ==
  IF disk.size = 0 THEN GatewayFail(f, ST_RNF)
  ELSE IF f.sector < 1 \/ f.sector > disk.sectorsPerTrack THEN GatewayFail(f, ST_RNF)
  ELSE IF ~openOk THEN GatewayFail(f, ST_RNF)
  ELSE LET file == fl[disk.filename]
           pos == SeekPos(file, ReadOffset(f, disk))
           bytesRead == Min(disk.sectorSize, Len(file) - pos)
           buf == [i \in BufIdx |->
                     IF i < bytesRead THEN file[pos + i + 1] ELSE f.sectorBuffer[i]]
           g == [f EXCEPT !.sectorBuffer = buf,
                          !.discarded = @ \ {i \in BufIdx : i < bytesRead}]
       IN IF bytesRead # disk.sectorSize THEN GatewayFail(g, ST_RNF)
          ELSE [g EXCEPT !.dataIndex = 0, !.dataLength = disk.sectorSize,
                         !.drq = TRUE, !.status = ST_BUSY + ST_DRQ,
                         !.state = "READING_SECTOR"]

\* returns the engine state and the content of the files after the call
WriteSectorData(f, disk, fl, openOk) ==
  IF disk.size = 0 THEN [fdc |-> GatewayFail(f, ST_RNF), files |-> fl]
  ELSE IF ~openOk THEN [fdc |-> GatewayFail(f, ST_WRITE_PROTECT), files |-> fl]
  ELSE LET file == fl[disk.filename]
           pos == SeekPos(file, WriteOffset(f, disk))
       IN [fdc |-> [f EXCEPT !.state = "SECTOR_WRITE_COMPLETE"],
           files |-> [fl EXCEPT ![disk.filename] =
                         FileWrite(file, pos, f.sectorBuffer, disk.sectorSize)]]

----------------------------------------------------------------------------
(* Type-II / III / IV commands                                             *)

CmdReadSector(f, disk, fl, openOk) ==
  IF disk.size = 0 THEN [f EXCEPT !.status = ST_RNF, !.intrq = TRUE]
  ELSE ReadSectorData(
         [f EXCEPT !.busy = TRUE, !.status = ST_BUSY,
                   !.multiSector = (AndF0(f.command) = CMD_READ_SECTORS),
                   !.sectorsRemaining = IF AndF0(f.command) = CMD_READ_SECTORS
                                        THEN disk.sectorsPerTrack ELSE 1,
                   !.state = "READING_SECTOR", !.elapsed = 0],
         disk, fl, openOk)

\* variant of CmdWriteSector: the write-protect flag is not consulted
CmdWriteSectorUnprotected(f, disk) ==
  IF disk.size = 0 THEN [f EXCEPT !.status = ST_RNF, !.intrq = TRUE]
  ELSE [f EXCEPT !.busy = TRUE, !.status = ST_BUSY,
                 !.multiSector = (AndF0(f.command) = CMD_WRITE_SECTORS),
                 !.sectorsRemaining = IF AndF0(f.command) = CMD_WRITE_SECTORS
                                      THEN disk.sectorsPerTrack ELSE 1,
                 !.dataIndex = 0, !.dataLength = disk.sectorSize, !.drq = TRUE,
                 !.state = "WAITING_FOR_DATA_IN", !.elapsed = 0]

CmdWriteSector(f, disk) ==
  IF disk.size = 0 THEN [f EXCEPT !.status = ST_RNF, !.intrq = TRUE]
  ELSE IF disk.writeProtected THEN [f EXCEPT !.status = ST_WRITE_PROTECT, !.intrq = TRUE]
  ELSE [f EXCEPT !.busy = TRUE, !.status = ST_BUSY,
                 !.multiSector = (AndF0(f.command) = CMD_WRITE_SECTORS),
                 !.sectorsRemaining = IF AndF0(f.command) = CMD_WRITE_SECTORS
                                      THEN disk.sectorsPerTrack ELSE 1,
                 !.dataIndex = 0, !.dataLength = disk.sectorSize, !.drq = TRUE,
                 !.state = "WAITING_FOR_DATA_IN", !.elapsed = 0]

CmdReadAddress(f) ==
  [f EXCEPT !.sectorBuffer = [i \in BufIdx |->
                                CASE i = 0 -> f.currentTrack
                                  [] i = 1 -> 0
                                  [] i = 2 -> 1
                                  [] i = 3 -> 2
                                  [] i = 4 -> 0
                                  [] i = 5 -> 0
                                  [] OTHER -> f.sectorBuffer[i]],
            !.discarded = @ \ (0..(READ_ADDRESS_LENGTH - 1)),
            !.dataIndex = 0, !.dataLength = READ_ADDRESS_LENGTH, !.drq = TRUE,
            !.busy = TRUE, !.status = ST_BUSY, !.state = "READING_SECTOR"]

\* variant of CmdForceInterrupt: DRQ is left as it was
CmdForceInterruptKeepsDrq(f) ==
  [f EXCEPT !.busy = FALSE, !.intrq = TRUE, !.state = "IDLE", !.status = 0,
            !.discarded = IF f.state = "WAITING_FOR_DATA_IN" /\ f.dataIndex < f.dataLength
                          THEN @ \cup {i \in BufIdx : i < f.dataIndex} ELSE @]

CmdForceInterrupt(f) ==
  [f EXCEPT !.busy = FALSE, !.drq = FALSE, !.intrq = TRUE, !.state = "IDLE",
            !.status = 0,
            !.discarded = IF f.state = "WAITING_FOR_DATA_IN" /\ f.dataIndex < f.dataLength
                          THEN @ \cup {i \in BufIdx : i < f.dataIndex} ELSE @]

----------------------------------------------------------------------------
(* Register access                                                         *)

\* the byte a Status read presents: stored status with BUSY and DRQ OR'd in
StatusValue(f) ==
  LET v == IF f.busy THEN OrBit(f.status, ST_BUSY) ELSE f.status
  IN IF f.drq THEN OrBit(v, ST_DRQ) ELSE v

\* variant of HandleRead: a Status read leaves INTRQ asserted
HandleReadKeepsIntrq(f, addr) ==
  CASE addr = 0 -> f
    [] addr = 1 -> f
    [] addr = 2 -> f
    [] addr = 3 ->
         IF f.state = "READING_SECTOR" /\ f.dataIndex < f.dataLength
         THEN LET g == [f EXCEPT !.data = f.sectorBuffer[f.dataIndex],
                                 !.dataIndex = f.dataIndex + 1]
              IN IF g.dataIndex >= g.dataLength
                 THEN [g EXCEPT !.drq = FALSE, !.state = "SECTOR_READ_COMPLETE"]
                 ELSE g
         ELSE f

HandleRead(f, addr) ==
  CASE addr = 0 -> [f EXCEPT !.intrq = FALSE]
    [] addr = 1 -> f
    [] addr = 2 -> f
    [] addr = 3 ->
         IF f.state = "READING_SECTOR" /\ f.dataIndex < f.dataLength
         THEN LET g == [f EXCEPT !.data = f.sectorBuffer[f.dataIndex],
                                 !.dataIndex = f.dataIndex + 1]
              IN IF g.dataIndex >= g.dataLength
                 THEN [g EXCEPT !.drq = FALSE, !.state = "SECTOR_READ_COMPLETE"]
                 ELSE g
         ELSE f

\* the byte handleRead() drives on the data bus
ReadValue(f, addr) ==
  CASE addr = 0 -> StatusValue(f)
    [] addr = 1 -> f.track
    [] addr = 2 -> f.sector
    [] addr = 3 -> HandleRead(f, 3).data

\* case 0 of handleWrite(): latch the command, decode and execute it
DecodeCommand(f, disk, fl, openOk) ==
  LET g == [f EXCEPT !.command = f.data]
      c == g.command
  IN CASE AndF0(c) = CMD_RESTORE  -> CmdRestore(g)
       [] AndF0(c) = CMD_SEEK     -> CmdSeek(g)
       [] AndE0(c) = CMD_STEP     -> CmdStep(g)
       [] AndE0(c) = CMD_STEP_IN  -> CmdStepIn(g)
       [] AndE0(c) = CMD_STEP_OUT -> CmdStepOut(g)
       [] AndF0(c) = CMD_READ_SECTOR \/ AndF0(c) = CMD_READ_SECTORS ->
            CmdReadSector(g, disk, fl, openOk)
       [] AndF0(c) = CMD_WRITE_SECTOR \/ AndF0(c) = CMD_WRITE_SECTORS ->
            CmdWriteSector(g, disk)
       [] AndF0(c) = CMD_READ_ADDRESS -> CmdReadAddress(g)
       [] AndF0(c) = CMD_FORCE_INT    -> CmdForceInterrupt(g)
       [] OTHER -> g

\* variant of WriteData: the byte is taken in any sequencing state
WriteDataAnyState(f, disk, fl, openOk) ==
  IF f.dataIndex < f.dataLength
  THEN LET g == [f EXCEPT !.sectorBuffer[f.dataIndex] = f.data,
                          !.discarded = @ \ {f.dataIndex},
                          !.dataIndex = f.dataIndex + 1]
       IN IF g.dataIndex >= g.dataLength
          THEN WriteSectorData([g EXCEPT !.drq = FALSE, !.state = "WRITING_SECTOR"],
                               disk, fl, openOk)
          ELSE [fdc |-> g, files |-> fl]
  ELSE [fdc |-> f, files |-> fl]

\* case 3 of handleWrite(): one byte of a sector write
WriteData(f, disk, fl, openOk) ==
  IF f.state = "WAITING_FOR_DATA_IN" /\ f.dataIndex < f.dataLength
  THEN LET g == [f EXCEPT !.sectorBuffer[f.dataIndex] = f.data,
                          !.discarded = @ \ {f.dataIndex},
                          !.dataIndex = f.dataIndex + 1]
       IN IF g.dataIndex >= g.dataLength
          THEN WriteSectorData([g EXCEPT !.drq = FALSE, !.state = "WRITING_SECTOR"],
                               disk, fl, openOk)
          ELSE [fdc |-> g, files |-> fl]
  ELSE [fdc |-> f, files |-> fl]

\* returns the engine state and the content of the files after the call
HandleWrite(f, addr, disk, fl, openOk) ==
  CASE addr = 0 -> [fdc |-> DecodeCommand(f, disk, fl, openOk), files |-> fl]
    [] addr = 1 -> [fdc |-> [f EXCEPT !.track = f.data], files |-> fl]
    [] addr = 2 -> [fdc |-> [f EXCEPT !.sector = f.data], files |-> fl]
    [] addr = 3 -> WriteData(f, disk, fl, openOk)

----------------------------------------------------------------------------
(* Sequencing state machine                                                *)

\* the STEP branch: uint8_t currentTrack += int8_t direction, then the clamps
StepTrack(f) ==
  LET t == (f.currentTrack + f.direction) % UINT8
  IN IF t > MAX_TRACKS THEN MAX_TRACKS ELSE t

SeekComplete(f) ==
  IF AndF0(f.command) = CMD_RESTORE
  THEN [f EXCEPT !.currentTrack = 0, !.track = 0, !.status = ST_TRACK00,
                 !.busy = FALSE, !.intrq = TRUE, !.state = "IDLE"]
  ELSE LET t == IF AndF0(f.command) = CMD_SEEK THEN f.data ELSE StepTrack(f)
       IN [f EXCEPT !.currentTrack = t,
                    !.track = IF HasBit(f.command, 16) THEN t ELSE @,
                    !.status = IF t = 0 THEN ST_TRACK00 ELSE 0,
                    !.busy = FALSE, !.intrq = TRUE, !.state = "IDLE"]

\* variant of TransferDone: the completion raises no interrupt
TransferDoneSilent(f) ==
  [f EXCEPT !.busy = FALSE, !.drq = FALSE, !.status = 0, !.state = "IDLE"]

\* the last branch of SECTOR_READ_COMPLETE and of SECTOR_WRITE_COMPLETE
TransferDone(f) ==
  [f EXCEPT !.busy = FALSE, !.drq = FALSE, !.intrq = TRUE, !.status = 0,
            !.state = "IDLE"]

StateMachine(f, disk, fl, openOk) ==
  CASE f.state = "SEEKING" ->
         IF f.elapsed >= f.stepRate THEN SeekComplete(f) ELSE f
    [] f.state = "SECTOR_READ_COMPLETE" ->
         IF f.multiSector /\ f.sectorsRemaining > 1
         THEN ReadSectorData([f EXCEPT !.sectorsRemaining = @ - 1,
                                       !.sector = (@ + 1) % UINT8],
                             disk, fl, openOk)
         ELSE TransferDone(f)
    [] f.state = "SECTOR_WRITE_COMPLETE" ->
         IF f.multiSector /\ f.sectorsRemaining > 1
         THEN [f EXCEPT !.sectorsRemaining = @ - 1, !.sector = (@ + 1) % UINT8,
                        !.dataIndex = 0, !.drq = TRUE,
                        !.state = "WAITING_FOR_DATA_IN"]
         ELSE TransferDone(f)
    [] OTHER -> f

----------------------------------------------------------------------------
(* Inputs.  A run explores one repertoire of the host driver; the           *)
(* specification is the union of the runs.                                  *)

Drives == 0..(MAX_DRIVES - 1)

\* command bytes per repertoire: 0 RESTORE, 16 SEEK, 32 STEP, 64 STEP IN,
\* 96 STEP OUT, 128 READ SECTOR, 144 READ SECTORS, 160 WRITE SECTOR,
\* 176 WRITE SECTORS, 192 READ ADDRESS, 208 FORCE INTERRUPT,
\* 224 READ TRACK (not implemented)
CommandBytes(h) ==
  CASE h = "seek"  -> {0, 16, 208, 224}
    [] h = "step"  -> {32, 64, 96, 208}
    [] h = "read"  -> {128, 144, 208}
    [] h = "addr"  -> {0, 192, 208}
    [] h = "write" -> {160, 176, 208}
    [] h = "protect" -> {160, 176}
    [] h = "swap"  -> {160, 208}
    [] h = "xfer"  -> {16, 128}
    [] h = "flat"  -> {128, 160}
    [] h = "sel"   -> {128}
    [] h = "multi" -> {16, 144}
    [] h = "grow"  -> {64, 160}
    [] h = "rate"  -> {0, 1, 2, 3, 17, 82}
    [] h = "utrack" -> {32, 48, 80, 96, 192}
    [] h = "latch" -> {3, 16, 32, 128, 240}

\* bytes the host writes to the Track register
TrackBytes(h) ==
  CASE h = "seek" -> {255}
    [] h = "step" -> {1}
    [] h = "utrack" -> {5}
    [] OTHER -> {}

\* bytes the host writes to the Sector register
SectorBytes(h) ==
  CASE h = "seek"  -> {1}
    [] h = "read"  -> 1..(ImageSectors + 1)
    [] h = "write" -> 1..(ImageSectors + 1)
    [] h \in {"xfer", "flat"} -> 1..ImageSectors
    [] h = "multi" -> {ImageSectors}
    [] h = "grow"  -> {1}
    [] OTHER -> {}

\* bytes the host writes to the Data register
DataBytes(h) ==
  CASE h \in {"write", "protect", "swap", "xfer", "flat", "multi", "grow"} -> {1}
    [] h \in {"rate", "latch"} -> {2}
    [] OTHER -> {}

WriteBytes(h, addr) ==
  CASE addr = 0 -> CommandBytes(h)
    [] addr = 1 -> TrackBytes(h)
    [] addr = 2 -> SectorBytes(h)
    [] addr = 3 -> DataBytes(h)

\* (drive, catalog index) pairs the operator binds
Loads(h) ==
  CASE h \in {"seek", "step", "addr", "rate", "utrack", "latch"} -> {}
    [] h = "swap" -> {<<0, 0>>, <<1, 1>>}
    [] h \in {"xfer", "multi"} -> {<<0, 2>>}
    [] h = "slots" -> {<<0, 0>>, <<0, 1>>, <<1, 1>>, <<MAX_DRIVES, 0>>,
                       <<0, totalImages>>, <<1, -1>>}
    [] OTHER -> {<<0, 0>>}

\* drives the operator ejects
Ejects(h) ==
  CASE h \in {"read", "flat"} -> {0}
    [] h = "slots" -> 0..MAX_DRIVES
    [] OTHER -> {}

\* (drive, flag) pairs: the write-protect flag given to a bound descriptor
WriteProtects(h) ==
  CASE h \in {"protect", "flat"} -> {<<0, TRUE>>, <<0, FALSE>>}
    [] OTHER -> {}

\* levels sampled on the drive-select lines DS0 and DS1
DriveSelects(h) ==
  CASE h = "swap" -> {<<TRUE, FALSE>>, <<FALSE, TRUE>>, <<TRUE, TRUE>>, <<FALSE, FALSE>>}
    [] h = "sel"  -> {<<TRUE, FALSE>>, <<FALSE, TRUE>>}
    [] OTHER -> {}

\* whether the storage backend opens the file
OpenOutcomes(h) == IF h \in {"read", "write", "slots"} THEN BOOLEAN ELSE {TRUE}

----------------------------------------------------------------------------
(* Actions                                                                 *)

\* the bus after the constructor: lastCS and lastRW true, the data pins
\* inputs, dataBusDriven false and dataValidUntil 0 (already in the past);
\* cs, rw, addr, data are the levels the host holds on the pins
BusBegin ==
  [cs |-> FALSE, rw |-> TRUE, addr |-> 0, data |-> 0, lastCS |-> TRUE,
   dataBusDriven |-> FALSE, pinsOutput |-> FALSE, expired |-> TRUE]

\* no geometry function has been applied
NoProbe == [stage |-> "none"]

\* no file /lastimg.cfg on the card, saveConfig() not called yet
NoConfig == [file |-> <<>>, saved |-> <<>>]

InitWith(h) ==
  /\ fdc = FdcBegin
  /\ activeDrive = 0
  /\ disks = [d \in Drives |-> EmptyDisk]
  /\ loadedImageIndex = [d \in Drives |-> -1]
  /\ files = [n \in FileNames |-> InitialFile(Catalog[CatalogEntry(n)])]
  /\ host = h
  /\ bus = BusBegin
  /\ probe = NoProbe
  /\ config = NoConfig

Init ==
  \E h \in {"seek", "step", "read", "addr", "write", "protect", "swap"} : InitWith(h)

\* the Sector register is explored up to two past the last sector of a track
WithinSectors(f) == f.sector <= ImageSectors + 2

\* the bytes of the file of catalog entry c that differ from the fresh image
DirtyBytes(c, file) ==
  {i \in 1..Len(file) : i > FileLength(c) \/ file[i] # InitialByte(i - 1)}

\* sector writes are explored while they leave at most MaxDirtySectors
\* sectors' worth of changed or appended bytes in each file
WithinDirty(fl) ==
  \A n \in FileNames :
    LET c == Catalog[CatalogEntry(n)]
    IN Cardinality(DirtyBytes(c, fl[n])) <= MaxDirtySectors * c.sectorSize

\* handleBus(), falling edge of a write cycle: the byte on the bus is stored
\* in fdc.data whatever the address, then handleWrite(addr) runs
WriteCycle(f, addr, d, disk, fl, openOk) ==
  HandleWrite([f EXCEPT !.data = d], addr, disk, fl, openOk)

\* handleBus(), write cycle: the host writes byte d to register addr
BusWrite(addr, d, openOk) ==
  LET r == WriteCycle(fdc, addr, d, disks[activeDrive], files, openOk)
  IN /\ WithinDirty(r.files)
     /\ WithinSectors(r.fdc)
     /\ fdc' = r.fdc
     /\ files' = r.files
     /\ UNCHANGED <<activeDrive, disks, loadedImageIndex, host, bus, probe, config>>

\* handleBus(), read cycle: the host reads register addr
BusRead(addr) ==
  /\ fdc' = HandleRead(fdc, addr)
  /\ UNCHANGED <<activeDrive, disks, loadedImageIndex, files, host, bus, probe, config>>

\* processStateMachine(): one tick of the super loop
ProcessStateMachine(openOk) ==
  /\ fdc' = StateMachine(fdc, disks[activeDrive], files, openOk)
  /\ WithinSectors(fdc')
  /\ UNCHANGED <<activeDrive, disks, loadedImageIndex, files, host, bus, probe, config>>

\* checkDriveSelect(): the active drive after the poll, drive being the
\* active drive before it and ds0High, ds1High the levels read on the pins
SelectedDrive(drive, ds0High, ds1High) ==
  IF ds0High THEN 0 ELSE IF ds1High THEN 1 ELSE drive

\* checkDriveSelect() with the levels sampled on DS0 and DS1
CheckDriveSelect(ds0High, ds1High) ==
  /\ activeDrive' = SelectedDrive(activeDrive, ds0High, ds1High)
  /\ UNCHANGED <<fdc, disks, loadedImageIndex, files, host, bus, probe, config>>

\* micros() moves on until the step rate of the seek in progress has
\* elapsed (the clock is read by the SEEKING branch only)
AdvanceTime ==
  /\ fdc.state = "SEEKING"
  /\ fdc.elapsed < fdc.stepRate
  /\ fdc' = [fdc EXCEPT !.elapsed = Min(@ + STEP_TIME_6MS, fdc.stepRate)]
  /\ UNCHANGED <<activeDrive, disks, loadedImageIndex, files, host, bus, probe, config>>

\* variant of LoadImageResult: the descriptor is cleared before the file is
\* opened
LoadImageResultClearsFirst(ds, li, drive, imageIndex, fl, openOk) ==
  IF drive >= MAX_DRIVES \/ imageIndex >= totalImages \/ imageIndex < 0
  THEN [ok |-> FALSE, disks |-> ds, loadedImageIndex |-> li]
  ELSE IF ~openOk
  THEN [ok |-> FALSE, disks |-> [ds EXCEPT ![drive] = EmptyDisk],
        loadedImageIndex |-> [li EXCEPT ![drive] = -1]]
  ELSE [ok |-> TRUE,
        disks |-> [ds EXCEPT ![drive] =
                     LoadedDisk(imageIndex, Len(fl[Catalog[imageIndex + 1].filename]))],
        loadedImageIndex |-> [li EXCEPT ![drive] = imageIndex]]

\* loadImage(drive, imageIndex) on slots ds, li: the value returned and the
\* slots after the call
LoadImageResult(ds, li, drive, imageIndex, fl, openOk) ==
  IF drive >= MAX_DRIVES \/ imageIndex >= totalImages \/ imageIndex < 0 \/ ~openOk
  THEN [ok |-> FALSE, disks |-> ds, loadedImageIndex |-> li]
  ELSE [ok |-> TRUE,
        disks |-> [ds EXCEPT ![drive] =
                     LoadedDisk(imageIndex, Len(fl[Catalog[imageIndex + 1].filename]))],
        loadedImageIndex |-> [li EXCEPT ![drive] = imageIndex]]

\* variant of EjectResult: the name is cleared, the size is left
EjectResultKeepsSize(ds, li, drive) ==
  IF drive >= MAX_DRIVES
  THEN [disks |-> ds, loadedImageIndex |-> li]
  ELSE [disks |-> [ds EXCEPT ![drive].filename = ""],
        loadedImageIndex |-> [li EXCEPT ![drive] = -1]]

\* ejectDrive(drive) on slots ds, li
EjectResult(ds, li, drive) ==
  IF drive >= MAX_DRIVES
  THEN [disks |-> ds, loadedImageIndex |-> li]
  ELSE [disks |-> [ds EXCEPT ![drive].filename = "", ![drive].size = 0],
        loadedImageIndex |-> [li EXCEPT ![drive] = -1]]

\* loadImage(drive, imageIndex)
LoadImage(drive, imageIndex, openOk) ==
  /\ LET r == LoadImageResult(disks, loadedImageIndex, drive, imageIndex, files, openOk)
     IN disks' = r.disks /\ loadedImageIndex' = r.loadedImageIndex
  /\ UNCHANGED <<fdc, activeDrive, files, host, bus, probe, config>>

\* ejectDrive(drive)
EjectDrive(drive) ==
  /\ LET r == EjectResult(disks, loadedImageIndex, drive)
     IN disks' = r.disks /\ loadedImageIndex' = r.loadedImageIndex
  /\ UNCHANGED <<fdc, activeDrive, files, host, bus, probe, config>>

\* the write-protect flag of a bound descriptor is set through getDisk()
SetWriteProtected(drive, wp) ==
  /\ disks[drive].size # 0
  /\ disks' = [disks EXCEPT ![drive].writeProtected = wp]
  /\ UNCHANGED <<fdc, activeDrive, loadedImageIndex, files, host, bus, probe, config>>

Next ==
  \/ \E addr \in 0..3 : \E d \in WriteBytes(host, addr) : \E openOk \in OpenOutcomes(host) :
       BusWrite(addr, d, openOk)
  \/ \E addr \in 0..3 : BusRead(addr)
  \/ \E openOk \in OpenOutcomes(host) : ProcessStateMachine(openOk)
  \/ \E ds \in DriveSelects(host) : CheckDriveSelect(ds[1], ds[2])
  \/ AdvanceTime
  \/ \E p \in Loads(host) : \E openOk \in OpenOutcomes(host) : LoadImage(p[1], p[2], openOk)
  \/ \E drive \in Ejects(host) : EjectDrive(drive)
  \/ \E w \in WriteProtects(host) : SetWriteProtected(w[1], w[2])

Spec == Init /\ [][Next]_vars

\* the repertoires of whole-sector transfers: reads on the headered image
\* C.DSK with seeks, reads and writes on the flat image with the operator
\* ejecting and protecting it, reads with the drive-select lines moving,
\* multi-sector reads on C.DSK with seeks, and writes on the flat image with
\* the head stepping in past its last track
InitXfer == \E h \in {"xfer", "flat", "sel", "multi", "grow"} : InitWith(h)

SpecXfer == InitXfer /\ [][Next]_vars

----------------------------------------------------------------------------
(* Geometry resolution: the classifier of loadImage() and the offsets of   *)
(* the sector gateway, applied to image files of real size.  The file on   *)
(* the card is given by its name, its length and the header fields the     *)
(* parser reads.                                                           *)

\* detectFormat(disk, fileSize): the geometry written to the descriptor and
\* the value returned
DetectFormat(fileSize) ==
  LET G(t, s, z, k) == [tracks |-> t, sectorsPerTrack |-> s, sectorSize |-> z, known |-> k]
      sectors256 == fileSize \div 256
      sectors512 == fileSize \div 512
  IN IF fileSize = SIZE_TIMEX_FDD3000_SS THEN G(40, 16, 256, TRUE)
     ELSE IF fileSize = SIZE_TIMEX_FDD3000_DS THEN G(80, 16, 256, TRUE)
     ELSE IF fileSize = SIZE_35_DD THEN G(80, 9, 512, TRUE)
     ELSE IF fileSize = SIZE_525_DD THEN G(40, 9, 512, TRUE)
     ELSE IF fileSize = SIZE_CPC_40T THEN G(40, 9, 512, TRUE)
     ELSE IF fileSize = 174336 THEN G(40, 9, 512, TRUE)
     ELSE IF sectors256 = 640 THEN G(40, 16, 256, TRUE)
     ELSE IF sectors256 = 1280 THEN G(80, 16, 256, TRUE)
     ELSE IF sectors512 < 720
          THEN G(40, (sectors512 \div 40) % UINT8, 512, FALSE)
          ELSE G(80, (sectors512 \div 80) % UINT8, 512, FALSE)

\* 128 << sectorSizeCode stored in the uint16_t sectorSize (codes below 16)
RECURSIVE ShiftLeft(_, _)
ShiftLeft(x, n) == IF n = 0 THEN x ELSE ShiftLeft(2 * x, n - 1)

\* parseExtendedDSK(): the descriptor after the call; the two reads return
\* 256 bytes when the file is long enough
ParseExtendedDSK(disk, card) ==
  IF card.size < 256 \/ ~card.diskSignature THEN disk
  ELSE LET d == [disk EXCEPT !.tracks = card.hdrTracks]
       IN IF card.size < 512 \/ ~card.trackSignature THEN d
          ELSE [d EXCEPT !.sectorsPerTrack = card.hdrSectors,
                         !.sectorSize = ShiftLeft(128, card.hdrSizeCode) % 65536,
                         !.isExtendedDSK = TRUE,
                         !.headerOffset = 256, !.trackHeaderSize = 256]

\* loadImage(): the descriptor bound to the drive for the file on the card
\* (the backend opens the file)
CardDisk(card) ==
  LET g == DetectFormat(card.size)
      flat == [filename |-> card.filename, size |-> card.size, tracks |-> g.tracks,
               sectorsPerTrack |-> g.sectorsPerTrack, sectorSize |-> g.sectorSize,
               writeProtected |-> FALSE, isExtendedDSK |-> FALSE,
               headerOffset |-> 0, trackHeaderSize |-> 0]
  IN IF card.dskName THEN ParseExtendedDSK(flat, card) ELSE flat

\* a file whose name has neither .DSK nor .HFE in it
FlatCard(size) ==
  [filename |-> "T.IMG", dskName |-> FALSE, size |-> size,
   diskSignature |-> FALSE, trackSignature |-> FALSE,
   hdrTracks |-> 0, hdrSectors |-> 0, hdrSizeCode |-> 0]

\* a .DSK file with both signatures: t tracks of s sectors of 128 << code
\* bytes, each track behind a 256-byte header, after a 256-byte disk header
DskCard(t, s, code) ==
  [filename |-> "T.DSK", dskName |-> TRUE,
   size |-> 256 + t * (256 + s * ShiftLeft(128, code)),
   diskSignature |-> TRUE, trackSignature |-> TRUE,
   hdrTracks |-> t, hdrSectors |-> s, hdrSizeCode |-> code]

\* lengths of the flat files: the six sizes of the table, one length for
\* each 256-byte guess, and lengths that reach the 512-byte fallback with
\* 40 tracks, with no whole sector per track, with 80 tracks, and with a
\* sector count that overflows the byte
FlatSizes ==
  {SIZE_TIMEX_FDD3000_SS, SIZE_TIMEX_FDD3000_DS, SIZE_35_DD, SIZE_525_DD,
   SIZE_CPC_40T, 174336, 163900, 327700, 100000, 20000, 819200, 12288000}

Cards ==
  {FlatCard(z) : z \in FlatSizes}
  \cup {DskCard(40, 9, 2), DskCard(40, 16, 1), DskCard(40, 5, 3), DskCard(40, 2, 4)}
  \cup {[DskCard(40, 9, 2) EXCEPT !.diskSignature = FALSE]}
  \cup {[DskCard(42, 9, 2) EXCEPT !.trackSignature = FALSE],
        [DskCard(42, 9, 2) EXCEPT !.size = 300]}

\* head positions the offsets are computed for
ProbeTracks == {0, 3, 39, 79}
ProbeSectors == {1, 4, 9, 16}

\* the registers the offset computations read
ProbeHead == [currentTrack |-> probe.track, sector |-> probe.sector]

InitGeometry ==
  /\ fdc = FdcBegin
  /\ activeDrive = 0
  /\ disks = [d \in Drives |-> EmptyDisk]
  /\ loadedImageIndex = [d \in Drives |-> -1]
  /\ files = [n \in FileNames |-> InitialFile(Catalog[CatalogEntry(n)])]
  /\ host = "geometry"
  /\ bus = BusBegin
  /\ config = NoConfig
  /\ \E card \in Cards : \E T \in ProbeTracks : \E S \in ProbeSectors :
       probe = [stage |-> "card", card |-> card, track |-> T, sector |-> S,
                disk |-> EmptyDisk, readOffset |-> -1, readLength |-> -1,
                writeOffset |-> -1, writeLength |-> -1]

\* loadImage() on the file of the card
GeomLoadImage ==
  /\ probe.stage = "card"
  /\ probe' = [probe EXCEPT !.stage = "loaded", !.disk = CardDisk(probe.card)]
  /\ UNCHANGED <<fdc, activeDrive, disks, loadedImageIndex, files, host, bus, config>>

\* readSectorData(): the offset passed to seek and the length passed to read
GeomReadOffset ==
  /\ probe.stage = "loaded" /\ probe.readOffset = -1
  /\ probe' = [probe EXCEPT !.readOffset = ReadOffset(ProbeHead, probe.disk),
                            !.readLength = probe.disk.sectorSize]
  /\ UNCHANGED <<fdc, activeDrive, disks, loadedImageIndex, files, host, bus, config>>

\* writeSectorData(): the offset passed to seek and the length passed to
\* write
GeomWriteOffset ==
  /\ probe.stage = "loaded" /\ probe.writeOffset = -1
  /\ probe' = [probe EXCEPT !.writeOffset = WriteOffset(ProbeHead, probe.disk),
                            !.writeLength = probe.disk.sectorSize]
  /\ UNCHANGED <<fdc, activeDrive, disks, loadedImageIndex, files, host, bus, config>>

NextGeometry == GeomLoadImage \/ GeomReadOffset \/ GeomWriteOffset

SpecGeometry == InitGeometry /\ [][NextGeometry]_vars

----------------------------------------------------------------------------
(* The data-bus pins.  handleBus() polls chip-select; the host moves the   *)
(* pins at any time between two polls.                                     *)

\* the bus cycles of the host: reads of Status and Data, a write of FORCE
\* INTERRUPT to the Command register
HostCycles ==
  {[rw |-> TRUE, addr |-> a, data |-> 0] : a \in {0, 3}}
  \cup {[rw |-> FALSE, addr |-> 0, data |-> CMD_FORCE_INT]}

\* releaseDataBus()
ReleaseDataBus(b) == [b EXCEPT !.pinsOutput = FALSE, !.dataBusDriven = FALSE]

\* driveDataBus(): the pins become outputs, dataValidUntil = micros() + 500
DriveDataBus(b) ==
  [b EXCEPT !.pinsOutput = TRUE, !.dataBusDriven = TRUE, !.expired = FALSE]

\* readDataBus(): the pins become inputs
ReadDataBus(b) == [b EXCEPT !.pinsOutput = FALSE]

\* handleBus(), rising edge of chip-select
RisingEdge(b) ==
  IF b.dataBusDriven /\ b.expired THEN ReleaseDataBus(b) ELSE b

InitBus == InitWith("bus")

\* the host asserts chip-select with the cycle c on RW, A1/A0 and the bus
HostAssertCS(c) ==
  /\ ~bus.cs
  /\ bus' = [bus EXCEPT !.cs = TRUE, !.rw = c.rw, !.addr = c.addr, !.data = c.data]
  /\ UNCHANGED <<fdc, activeDrive, disks, loadedImageIndex, files, host, probe, config>>

\* the host de-asserts chip-select
HostReleaseCS ==
  /\ bus.cs
  /\ bus' = [bus EXCEPT !.cs = FALSE]
  /\ UNCHANGED <<fdc, activeDrive, disks, loadedImageIndex, files, host, probe, config>>

\* micros() passes dataValidUntil
HoldExpires ==
  /\ ~bus.expired
  /\ bus' = [bus EXCEPT !.expired = TRUE]
  /\ UNCHANGED <<fdc, activeDrive, disks, loadedImageIndex, files, host, probe, config>>

\* handleBus(): one poll
HandleBus ==
  LET falling == ~bus.lastCS /\ bus.cs
      rising == bus.lastCS /\ ~bus.cs
      w == WriteCycle(fdc, bus.addr, bus.data, disks[activeDrive], files, TRUE)
  IN /\ fdc' = IF falling
                THEN IF bus.rw THEN HandleRead(fdc, bus.addr) ELSE w.fdc
                ELSE fdc
     /\ files' = IF falling /\ ~bus.rw THEN w.files ELSE files
     /\ bus' = [(IF falling THEN IF bus.rw THEN DriveDataBus(bus) ELSE ReadDataBus(bus)
                 ELSE IF rising THEN RisingEdge(bus)
                 ELSE bus)
                EXCEPT !.lastCS = bus.cs]
     /\ UNCHANGED <<activeDrive, disks, loadedImageIndex, host, probe, config>>

\* disable()
Disable ==
  /\ bus' = IF bus.dataBusDriven THEN ReleaseDataBus(bus) ELSE bus
  /\ UNCHANGED <<fdc, activeDrive, disks, loadedImageIndex, files, host, probe, config>>

NextBus ==
  \/ \E c \in HostCycles : HostAssertCS(c)
  \/ HostReleaseCS
  \/ HoldExpires
  \/ HandleBus
  \/ Disable

SpecBus == InitBus /\ [][NextBus]_vars

----------------------------------------------------------------------------
(* Slot bindings and their persistence: loadImage(), ejectDrive(),         *)
(* saveConfig() and a restart that runs loadConfig().  The file            *)
(* /lastimg.cfg is the pair of names of its line, or <<>> when the card    *)
(* has no such file.                                                       *)

\* the name saveConfig() prints for a slot
ConfigName(index) ==
  IF index >= 0 /\ index < totalImages THEN Catalog[index + 1].filename ELSE "NONE"

\* sd->open(path, O_WRITE): the flags carry no O_CREAT, the backend opens
\* the file only if it exists
OpenWrite(exists) == exists

\* saveConfig(): the file after the call.  An existing file is removed
\* first; the line is written if the open succeeds
SaveConfigFile(file, li) ==
  LET removed == <<>>
  IN IF OpenWrite(removed # <<>>)
     THEN <<ConfigName(li[0]), ConfigName(li[1])>>
     ELSE removed

\* loadConfig() on freshly constructed slots: each name other than NONE is
\* looked up in the catalog and the first match is loaded (the backend
\* opens the image files)
LoadConfig(file, fl) ==
  LET empty == [ok |-> TRUE, disks |-> [d \in Drives |-> EmptyDisk],
                loadedImageIndex |-> [d \in Drives |-> -1]]
      Find(name) == {idx \in 0..(totalImages - 1) : Catalog[idx + 1].filename = name}
      First(name) == CHOOSE idx \in Find(name) : \A j \in Find(name) : idx <= j
      Bind(s, drive, name) ==
        IF name = "NONE" \/ Find(name) = {} THEN s
        ELSE LoadImageResult(s.disks, s.loadedImageIndex, drive, First(name), fl, TRUE)
  IN IF file = <<>> THEN empty
     ELSE Bind(Bind(empty, 0, file[1]), 1, file[2])

\* names a config line put on the card beforehand may hold
ConfigNames == {"A.IMG", "B.DSK", "NONE", "X.IMG"}

InitSlots ==
  /\ fdc = FdcBegin
  /\ activeDrive = 0
  /\ disks = [d \in Drives |-> EmptyDisk]
  /\ loadedImageIndex = [d \in Drives |-> -1]
  /\ files = [n \in FileNames |-> InitialFile(Catalog[CatalogEntry(n)])]
  /\ host = "slots"
  /\ bus = BusBegin
  /\ probe = NoProbe
  /\ \E f \in {<<>>} \cup (ConfigNames \X ConfigNames) :
       config = [file |-> f, saved |-> <<>>]

\* saveConfig()
SaveConfig ==
  /\ config' = [file |-> SaveConfigFile(config.file, loadedImageIndex),
                saved |-> <<loadedImageIndex[0], loadedImageIndex[1]>>]
  /\ UNCHANGED <<fdc, activeDrive, disks, loadedImageIndex, files, host, bus, probe>>

\* power cycle: the constructors, begin(), scanImages() on the same card
\* and loadConfig()
Restart ==
  /\ LET r == LoadConfig(config.file, files)
     IN disks' = r.disks /\ loadedImageIndex' = r.loadedImageIndex
  /\ fdc' = FdcBegin
  /\ activeDrive' = 0
  /\ bus' = BusBegin
  /\ config' = [config EXCEPT !.saved = <<>>]
  /\ UNCHANGED <<files, host, probe>>

NextSlots ==
  \/ \E p \in Loads(host) : \E openOk \in OpenOutcomes(host) : LoadImage(p[1], p[2], openOk)
  \/ \E drive \in Ejects(host) : EjectDrive(drive)
  \/ SaveConfig
  \/ Restart

SpecSlots == InitSlots /\ [][NextSlots]_vars

----------------------------------------------------------------------------
(* Head movement: the Type-I commands with every step rate and with the    *)
(* update-track bit, the host writing registers and command bytes while    *)
(* the seek is timed.  No image is bound.                                  *)

InitSeek == \E h \in {"rate", "utrack", "latch"} : InitWith(h)

\* a write cycle of the host; it writes command bytes while the head is
\* within MaxSeekTrack tracks of track 0
SeekWrite(addr, d) ==
  /\ addr = 0 => fdc.currentTrack <= MaxSeekTrack
  /\ BusWrite(addr, d, TRUE)

NextSeek ==
  \/ \E addr \in 0..3 : \E d \in WriteBytes(host, addr) : SeekWrite(addr, d)
  \/ \E addr \in 0..3 : BusRead(addr)
  \/ ProcessStateMachine(TRUE)
  \/ AdvanceTime

SpecSeek == InitSeek /\ [][NextSeek]_vars

\* the super loop calls processStateMachine() on every pass and micros()
\* keeps counting
SpecSeekFair ==
  /\ InitSeek
  /\ [][NextSeek]_vars
  /\ WF_vars(ProcessStateMachine(TRUE))
  /\ WF_vars(AdvanceTime)

----------------------------------------------------------------------------
(* Reference definitions of the properties                                 *)

\* byte offset of logical sector (T, S) in the file of a descriptor, as the
\* sector gateway is specified
SectorOffset(disk, T, S) ==
  IF disk.isExtendedDSK
  THEN disk.headerOffset
       + T * (disk.trackHeaderSize + disk.sectorsPerTrack * disk.sectorSize)
       + disk.trackHeaderSize + (S - 1) * disk.sectorSize
  ELSE (T * disk.sectorsPerTrack + (S - 1)) * disk.sectorSize

\* the descriptor is bound, S is a sector of a track and (T, S) lies in the file
SectorInFile(disk, fl, T, S) ==
  /\ disk.size # 0
  /\ S \in 1..disk.sectorsPerTrack
  /\ SectorOffset(disk, T, S) + disk.sectorSize <= Len(fl[disk.filename])

\* the engine after the host wrote byte cmd to the Command register
\* (the backend opens the file)
AfterCommand(f, cmd, disk, fl) == WriteCycle(f, 0, cmd, disk, fl, TRUE)

\* the engine after n successive reads of the Data register
RECURSIVE DataReads(_, _)
DataReads(f, n) == IF n = 0 THEN f ELSE HandleRead(DataReads(f, n - 1), 3)

\* engine and files after the host wrote B[0..n-1] to the Data register
RECURSIVE DataWrites(_, _, _, _)
DataWrites(r, disk, B, n) ==
  IF n = 0 THEN r
  ELSE LET p == DataWrites(r, disk, B, n - 1)
       IN HandleWrite([p.fdc EXCEPT !.data = B[n - 1]], 3, disk, p.files, TRUE)

\* the bytes the host receives when it reads the Data register n times
RECURSIVE DataValues(_, _)
DataValues(f, n) ==
  IF n = 0 THEN <<>>
  ELSE Append(DataValues(f, n - 1), ReadValue(DataReads(f, n - 1), 3))

\* a multi-sector read run to its end: while the engine offers a sector the
\* host reads its dataLength bytes and the super loop ticks once; gives the
\* engine at the end and the bytes delivered (at most fuel sectors)
RECURSIVE MultiRead(_, _, _, _)
MultiRead(f, disk, fl, fuel) ==
  IF f.state # "READING_SECTOR" \/ fuel = 0
  THEN [fdc |-> f, out |-> <<>>]
  ELSE LET g == StateMachine(DataReads(f, f.dataLength), disk, fl, TRUE)
           rest == MultiRead(g, disk, fl, fuel - 1)
       IN [fdc |-> rest.fdc, out |-> DataValues(f, f.dataLength) \o rest.out]

\* the bytes of sectors k..spt of track T in the file of the descriptor
FileBytes(disk, fl, T, k) ==
  LET n == (disk.sectorsPerTrack - k + 1) * disk.sectorSize
  IN [i \in 1..n |->
        fl[disk.filename][SectorOffset(disk, T, k + (i - 1) \div disk.sectorSize)
                           + ((i - 1) % disk.sectorSize) + 1]]

\* byte values the host supplies in the round trip
RoundTripBytes == {7, 8}

----------------------------------------------------------------------------
(* Properties                                                              *)

\* C1: in every reachable state BUSY is false exactly when the sequencing
\* state is IDLE.
C1_BusyIffNotIdle == fdc.busy <=> (fdc.state # "IDLE")

\* a read transfer ran to its end and the engine is back in IDLE, not busy
C1_Witness ==
  /\ fdc.state = "IDLE" /\ ~fdc.busy
  /\ AndF0(fdc.command) = CMD_READ_SECTOR
  /\ fdc.dataLength > 0 /\ fdc.dataIndex = fdc.dataLength

\* C2: in every reachable state, DRQ true implies that the sequencing state
\* is READING_SECTOR or WAITING_FOR_DATA_IN and that dataIndex < dataLength.
C2_DrqOnlyDuringTransfer ==
  fdc.drq => /\ fdc.state \in {"READING_SECTOR", "WAITING_FOR_DATA_IN"}
             /\ fdc.dataIndex < fdc.dataLength

\* C3: every step that takes the sequencing state from a non-IDLE value to
\* IDLE leaves INTRQ asserted.
C3_IdleEntryAssertsIntrq ==
  [][(fdc.state # "IDLE" /\ fdc'.state = "IDLE") => fdc'.intrq]_vars

\* a SEEK ran out its step time and the engine returned to IDLE with INTRQ
C3_Witness ==
  /\ fdc.state = "IDLE" /\ fdc.intrq
  /\ AndF0(fdc.command) = CMD_SEEK
  /\ fdc.elapsed >= fdc.stepRate

\* C4: INTRQ falls only in a step that is a read of the Status register (the
\* step changes nothing but INTRQ), and a read of the Status register
\* de-asserts INTRQ in every reachable state.
C4_IntrqUntilStatusRead ==
  /\ [][(fdc.intrq /\ ~fdc'.intrq) =>
          /\ fdc' = [fdc EXCEPT !.intrq = FALSE]
          /\ UNCHANGED <<activeDrive, disks, loadedImageIndex, files, host>>]_vars
  /\ [](~HandleRead(fdc, 0).intrq)

\* the INTRQ of a FORCE INTERRUPT has been cleared by a Status read
C4_Witness ==
  /\ fdc.state = "IDLE" /\ ~fdc.intrq
  /\ AndF0(fdc.command) = CMD_FORCE_INT /\ fdc.status = 0

\* C5: 0 <= currentTrack <= MAX_TRACKS in every reachable state.
C5_TrackInRange == fdc.currentTrack >= 0 /\ fdc.currentTrack <= MAX_TRACKS

\* C6: in every reachable state, writing any byte 0xD0..0xDF to the Command
\* register results in BUSY false, DRQ false, INTRQ true, state IDLE and
\* stored status 0.
C6_ForceInterrupt ==
  \A cmd \in CMD_FORCE_INT..(CMD_FORCE_INT + 15) : \A openOk \in BOOLEAN :
    LET r == HandleWrite([fdc EXCEPT !.data = cmd], 0, disks[activeDrive], files, openOk).fdc
    IN ~r.busy /\ ~r.drq /\ r.intrq /\ r.state = "IDLE" /\ r.status = 0

\* a FORCE INTERRUPT has cut a transfer short
C6_Witness ==
  /\ AndF0(fdc.command) = CMD_FORCE_INT
  /\ fdc.state = "IDLE" /\ ~fdc.busy /\ ~fdc.drq /\ fdc.intrq /\ fdc.status = 0
  /\ fdc.dataIndex > 0 /\ fdc.dataIndex < fdc.dataLength

\* C7, first part: a step modifies a file only as the Data-register write
\* that supplies the last of the dataLength bytes in WAITING_FOR_DATA_IN.
C7_ModifiedOnlyWhenComplete ==
  [][files' # files =>
       /\ fdc.state = "WAITING_FOR_DATA_IN"
       /\ fdc.dataIndex + 1 = fdc.dataLength
       /\ fdc'.dataIndex = fdc.dataLength]_vars

\* C7, second part: a FORCE INTERRUPT written after some but not all bytes of
\* a sector write leaves the files unchanged and the engine in IDLE.
C7_InterruptDiscards ==
  (fdc.state = "WAITING_FOR_DATA_IN" /\ fdc.dataIndex > 0 /\ fdc.dataIndex < fdc.dataLength) =>
    \A cmd \in CMD_FORCE_INT..(CMD_FORCE_INT + 15) :
      LET r == AfterCommand(fdc, cmd, disks[activeDrive], files)
      IN r.files = files /\ r.fdc.state = "IDLE"

\* C7, third part: no step that modifies a file writes a staging byte that a
\* FORCE INTERRUPT discarded.
C7_DiscardedNeverWritten ==
  [][files' # files =>
       fdc'.discarded \cap (0..(disks[activeDrive].sectorSize - 1)) = {}]_vars

\* C7: the file is modified only when the host has supplied all dataLength
\* bytes in WAITING_FOR_DATA_IN; a FORCE INTERRUPT after a partial write
\* leaves the file unchanged and the engine in IDLE; the discarded bytes are
\* never written by a later command.
C7_NoPartialFlush ==
  /\ C7_ModifiedOnlyWhenComplete
  /\ []C7_InterruptDiscards
  /\ C7_DiscardedNeverWritten

\* C8: from IDLE, on a bound image with the Sector register in [1, spt] and
\* the sector inside the file, READ SECTOR (0x80) asserts DRQ with the
\* staging buffer holding the ssz bytes at the sector's offset; the ssz
\* Data-register reads that follow return those bytes in order, one staging
\* index each, DRQ staying up until the ssz-th read clears it; after the
\* next tick the engine is IDLE, BUSY clear, INTRQ set, Status reading 0x00.
C8_SingleSectorRead ==
  LET disk == disks[activeDrive]
      ssz == disk.sectorSize
  IN (fdc.state = "IDLE" /\ SectorInFile(disk, files, fdc.currentTrack, fdc.sector)) =>
       LET r0 == AfterCommand(fdc, CMD_READ_SECTOR, disk, files).fdc
           off == SectorOffset(disk, fdc.currentTrack, fdc.sector)
           rN == DataReads(r0, ssz)
           done == StateMachine(rN, disk, files, TRUE)
       IN /\ r0.drq /\ r0.state = "READING_SECTOR"
          /\ \A i \in 0..(ssz - 1) : r0.sectorBuffer[i] = files[disk.filename][off + i + 1]
          /\ \A i \in 0..(ssz - 1) :
               /\ DataReads(r0, i).drq
               /\ DataReads(r0, i).dataIndex = i
               /\ ReadValue(DataReads(r0, i), 3) = files[disk.filename][off + i + 1]
          /\ ~rN.drq
          /\ done.state = "IDLE" /\ ~done.busy /\ done.intrq
          /\ ReadValue(done, 0) = 0

\* a single-sector read has delivered a whole sector of the file and ended
C8_Witness ==
  LET disk == disks[activeDrive]
  IN /\ fdc.state = "IDLE" /\ fdc.command = CMD_READ_SECTOR
     /\ ~fdc.busy /\ fdc.intrq /\ fdc.status = 0
     /\ SectorInFile(disk, files, fdc.currentTrack, fdc.sector)
     /\ fdc.currentTrack > 0
     /\ fdc.dataLength = disk.sectorSize /\ fdc.dataIndex = fdc.dataLength
     /\ fdc.data = fdc.sectorBuffer[fdc.dataLength - 1]
     /\ \A i \in 0..(disk.sectorSize - 1) :
          fdc.sectorBuffer[i] =
            files[disk.filename][SectorOffset(disk, fdc.currentTrack, fdc.sector) + i + 1]

\* C9: from IDLE, on a bound, non-protected image with (T, S) in range, a
\* WRITE SECTOR completed with bytes B followed by a READ SECTOR of the same
\* (T, S) delivers exactly B to the host, and the write leaves every byte
\* outside sector (T, S), and every other file, unchanged.
C9_RoundTrip ==
  LET disk == disks[activeDrive]
      ssz == disk.sectorSize
      T == fdc.currentTrack
      S == fdc.sector
  IN (/\ fdc.state = "IDLE" /\ disk.size # 0 /\ ~disk.writeProtected
      /\ T < disk.tracks /\ S \in 1..disk.sectorsPerTrack) =>
       \A B \in [0..(ssz - 1) -> RoundTripBytes] :
         LET w0 == AfterCommand(fdc, CMD_WRITE_SECTOR, disk, files)
             wN == DataWrites(w0, disk, B, ssz)
             wDone == StateMachine(wN.fdc, disk, wN.files, TRUE)
             r0 == AfterCommand(wDone, CMD_READ_SECTOR, disk, wN.files).fdc
             off == SectorOffset(disk, T, S)
             name == disk.filename
         IN /\ wDone.state = "IDLE"
            /\ r0.state = "READING_SECTOR"
            /\ \A i \in 0..(ssz - 1) : ReadValue(DataReads(r0, i), 3) = B[i]
            /\ Len(wN.files[name]) = Len(files[name])
            /\ \A j \in 1..Len(files[name]) :
                 (j <= off \/ j > off + ssz) => wN.files[name][j] = files[name][j]
            /\ \A n \in FileNames \ {name} : wN.files[n] = files[n]

\* C9 restricted to sectors that lie inside the image file
C9_RoundTripInsideFile ==
  SectorInFile(disks[activeDrive], files, fdc.currentTrack, fdc.sector) => C9_RoundTrip

\* a sector the host wrote has been read back whole
C9_Witness ==
  LET disk == disks[activeDrive]
      off == SectorOffset(disk, fdc.currentTrack, fdc.sector)
  IN /\ fdc.state = "IDLE" /\ fdc.command = CMD_READ_SECTOR
     /\ SectorInFile(disk, files, fdc.currentTrack, fdc.sector)
     /\ fdc.currentTrack < disk.tracks
     /\ fdc.dataLength = disk.sectorSize /\ fdc.dataIndex = fdc.dataLength
     /\ \A i \in 0..(disk.sectorSize - 1) :
          /\ fdc.sectorBuffer[i] = files[disk.filename][off + i + 1]
          /\ fdc.sectorBuffer[i] # InitialByte(off + i)

\* C10: in every reachable state whose active drive is bound to a
\* write-protected image, writing a WRITE SECTOR or WRITE SECTORS byte to the
\* Command register leaves stored status 0x40 and INTRQ set, does not change
\* DRQ or the sequencing state, and leaves the files unchanged.
C10_WriteProtected ==
  LET disk == disks[activeDrive]
  IN (disk.size # 0 /\ disk.writeProtected) =>
       \A cmd \in CMD_WRITE_SECTOR..(CMD_WRITE_SECTORS + 15) : \A openOk \in BOOLEAN :
         LET r == HandleWrite([fdc EXCEPT !.data = cmd], 0, disk, files, openOk)
         IN /\ r.fdc.status = ST_WRITE_PROTECT /\ r.fdc.intrq
            /\ r.fdc.drq = fdc.drq
            /\ r.fdc.state = fdc.state
            /\ r.files = files

\* a write command was refused on a protected image before any transfer
C10_Witness ==
  /\ disks[activeDrive].size # 0 /\ disks[activeDrive].writeProtected
  /\ AndF0(fdc.command) \in {CMD_WRITE_SECTOR, CMD_WRITE_SECTORS}
  /\ fdc.status = ST_WRITE_PROTECT /\ fdc.intrq /\ ~fdc.drq
  /\ fdc.state = "IDLE" /\ fdc.dataLength = 0

\* C11: whenever a command fails with record-not-found or write-protect,
\* at command dispatch, at the commit of a written sector or at the
\* continuation of a multi-sector read, in whatever sequencing state the
\* engine was, the engine is then in IDLE with BUSY clear and INTRQ asserted.
C11_FailureEndsIdle ==
  LET disk == disks[activeDrive]
      Failed(f) == f.status \in {ST_RNF, ST_WRITE_PROTECT}
      Ended(f) == f.state = "IDLE" /\ ~f.busy /\ f.intrq
  IN \A openOk \in BOOLEAN :
       /\ \A cmd \in CMD_READ_SECTOR..(CMD_READ_ADDRESS - 1) :
            LET r == WriteCycle(fdc, 0, cmd, disk, files, openOk).fdc
            IN Failed(r) => Ended(r)
       /\ \A d \in {0, 1} :
            LET r == WriteCycle(fdc, 3, d, disk, files, openOk).fdc
            IN Failed(r) /\ ~Failed(fdc) => Ended(r)
       /\ LET r == StateMachine(fdc, disk, files, openOk)
          IN Failed(r) /\ ~Failed(fdc) => Ended(r)

\* the failures detected by the sector gateway do end in IDLE: a failure
\* with the engine in IDLE before the command, at commit or at continuation
C11_GatewayFailureEndsIdle ==
  LET disk == disks[activeDrive]
      Failed(f) == f.status \in {ST_RNF, ST_WRITE_PROTECT}
      Ended(f) == f.state = "IDLE" /\ ~f.busy /\ f.intrq
  IN \A openOk \in BOOLEAN :
       /\ \A cmd \in CMD_READ_SECTOR..(CMD_READ_ADDRESS - 1) :
            LET r == WriteCycle(fdc, 0, cmd, disk, files, openOk).fdc
            IN Failed(r) /\ (fdc.state = "IDLE" \/ (disk.size # 0 /\ cmd < CMD_WRITE_SECTOR))
                 => Ended(r)
       /\ \A d \in {0, 1} :
            LET r == WriteCycle(fdc, 3, d, disk, files, openOk).fdc
            IN Failed(r) /\ ~Failed(fdc) => Ended(r)
       /\ LET r == StateMachine(fdc, disk, files, openOk)
          IN Failed(r) /\ ~Failed(fdc) => Ended(r)

\* a sector read whose Sector register is outside [1, spt] of the bound
\* image fails with record-not-found and INTRQ, at dispatch and at the
\* continuation of a multi-sector read
C12_ReadOutsideFails ==
  LET disk == disks[activeDrive]
      Rnf(f) == f.status = ST_RNF /\ f.intrq
  IN disk.size # 0 =>
       \A openOk \in BOOLEAN :
         /\ fdc.sector \notin 1..disk.sectorsPerTrack =>
              \A cmd \in CMD_READ_SECTOR..(CMD_WRITE_SECTOR - 1) :
                Rnf(WriteCycle(fdc, 0, cmd, disk, files, openOk).fdc)
         /\ ( /\ fdc.state = "SECTOR_READ_COMPLETE"
              /\ fdc.multiSector /\ fdc.sectorsRemaining > 1
              /\ (fdc.sector + 1) % UINT8 \notin 1..disk.sectorsPerTrack )
              => Rnf(StateMachine(fdc, disk, files, openOk))

\* a sector write dispatched with the Sector register outside [1, spt] of
\* the bound, unprotected image fails with record-not-found and INTRQ
C12_WriteOutsideFails ==
  LET disk == disks[activeDrive]
  IN (disk.size # 0 /\ ~disk.writeProtected
        /\ fdc.sector \notin 1..disk.sectorsPerTrack) =>
       \A cmd \in CMD_WRITE_SECTOR..(CMD_READ_ADDRESS - 1) :
         LET r == WriteCycle(fdc, 0, cmd, disk, files, TRUE).fdc
         IN r.status = ST_RNF /\ r.intrq

\* no step changes a file while the Sector register is outside [1, spt] of
\* the image bound to the active drive
C12_WriteOutsideKeepsFile ==
  [][files' # files => fdc.sector \in 1..disks[activeDrive].sectorsPerTrack]_vars

\* C12: a sector transfer in either direction whose sector number is
\* outside [1, spt] fails with record-not-found and INTRQ, and in the write
\* direction no byte of the image file is modified.
C12_SectorOutsideFails ==
  /\ [](C12_ReadOutsideFails /\ C12_WriteOutsideFails)
  /\ C12_WriteOutsideKeepsFile

\* C13: from IDLE on a bound image, with the Sector register k in [1, spt]
\* and the sectors k..spt of the current track T inside the file, a READ
\* SECTORS command followed by the host reading every byte offered delivers
\* exactly the bytes of sectors k, k+1, ..., spt of track T in order, then
\* the engine is in IDLE with INTRQ asserted and current_track unchanged.
C13_MultiSectorStopsAtTrackEnd ==
  LET disk == disks[activeDrive]
      T == fdc.currentTrack
  IN ( /\ fdc.state = "IDLE"
       /\ SectorInFile(disk, files, T, fdc.sector)
       /\ SectorInFile(disk, files, T, disk.sectorsPerTrack) ) =>
       \A cmd \in CMD_READ_SECTORS..(CMD_WRITE_SECTOR - 1) :
         LET r == MultiRead(AfterCommand(fdc, cmd, disk, files).fdc, disk, files,
                            disk.sectorsPerTrack + 2)
         IN /\ r.out = FileBytes(disk, files, T, fdc.sector)
            /\ r.fdc.state = "IDLE" /\ r.fdc.intrq /\ ~r.fdc.busy
            /\ r.fdc.currentTrack = T

\* a multi-sector read started at the last sector of a track above track 0
\* has delivered that sector and stopped at the track end
C13_Witness ==
  LET disk == disks[activeDrive]
  IN /\ fdc.state = "IDLE" /\ fdc.intrq
     /\ AndF0(fdc.command) = CMD_READ_SECTORS /\ fdc.multiSector
     /\ fdc.currentTrack > 0
     /\ SectorInFile(disk, files, fdc.currentTrack, disk.sectorsPerTrack)
     /\ fdc.sector = disk.sectorsPerTrack + 1
     /\ fdc.dataLength = disk.sectorSize /\ fdc.dataIndex = fdc.dataLength
     /\ \A i \in 0..(disk.sectorSize - 1) :
          fdc.sectorBuffer[i] =
            files[disk.filename][SectorOffset(disk, fdc.currentTrack, disk.sectorsPerTrack) + i + 1]

\* the engine after RESTORE byte cmd was written to the Command register,
\* one step-rate period elapsed and the super loop ticked
RestoreDone(f, cmd, disk, fl) ==
  LET a == AfterCommand(f, cmd, disk, fl).fdc
  IN StateMachine([a EXCEPT !.elapsed = a.stepRate], disk, fl, TRUE)

\* RESTORE sets BUSY at once and ends, after one step-rate period, at track
\* 0 with stored status TRACK00, BUSY clear, INTRQ asserted, in IDLE
C14_RestoreCompletes ==
  LET disk == disks[activeDrive]
  IN \A cmd \in CMD_RESTORE..(CMD_SEEK - 1) :
       LET a == AfterCommand(fdc, cmd, disk, files).fdc
           c == RestoreDone(fdc, cmd, disk, files)
       IN /\ a.busy /\ a.state = "SEEKING"
          /\ c.currentTrack = 0 /\ c.track = 0 /\ c.status = ST_TRACK00
          /\ ~c.busy /\ c.intrq /\ c.state = "IDLE"

\* C14: RESTORE issued in any reachable state sets BUSY immediately and,
\* once one step-rate period has elapsed, ends with current_track = 0,
\* Track register = 0, stored status TRACK00, BUSY clear, INTRQ asserted and
\* state IDLE; the following Status read returns 0x04 and clears INTRQ.
C14_Restore ==
  /\ C14_RestoreCompletes
  /\ \A cmd \in CMD_RESTORE..(CMD_SEEK - 1) :
       LET c == RestoreDone(fdc, cmd, disks[activeDrive], files)
       IN ReadValue(c, 0) = ST_TRACK00 /\ ~HandleRead(c, 0).intrq

\* with DRQ clear when RESTORE is written the Status read returns 0x04
C14_RestoreWithoutDrq == ~fdc.drq => C14_Restore

\* seek targets the host writes to the Data register
SeekTargets == {0, 1, MAX_TRACKS}

\* C15: from IDLE, after the host writes a target N to the Data register
\* and then a SEEK byte to the Command register, once the step-rate period
\* has elapsed the seek completes with current_track = N, Track register =
\* N, stored status TRACK00 iff N = 0, BUSY clear and INTRQ asserted.
C15_SeekReachesTarget ==
  LET disk == disks[activeDrive]
  IN fdc.state = "IDLE" =>
       \A N \in SeekTargets : \A cmd \in CMD_SEEK..(CMD_STEP - 1) :
         LET w == WriteCycle(fdc, 3, N, disk, files, TRUE)
             a == WriteCycle(w.fdc, 0, cmd, disk, w.files, TRUE).fdc
             c == StateMachine([a EXCEPT !.elapsed = a.stepRate], disk, w.files, TRUE)
         IN /\ c.currentTrack = N /\ c.track = N
            /\ (c.status = ST_TRACK00) <=> (N = 0)
            /\ ~c.busy /\ c.intrq

\* C16: a step of the super loop that completes a STEP, STEP IN or STEP OUT
\* command leaves current_track = clamp(current_track + direction, 0,
\* MAX_TRACKS), stored status TRACK00 exactly at track 0, and INTRQ asserted.
C16_StepClamps ==
  [][ ( /\ fdc.state = "SEEKING" /\ fdc'.state = "IDLE"
        /\ fdc'.command = fdc.command
        /\ fdc.command \in CMD_STEP..(CMD_READ_SECTOR - 1)
        /\ fdc.currentTrack <= MAX_TRACKS )
      => /\ fdc'.currentTrack = Max(0, Min(fdc.currentTrack + fdc.direction, MAX_TRACKS))
         /\ (fdc'.status = ST_TRACK00) <=> (fdc'.currentTrack = 0)
         /\ fdc'.intrq ]_vars

\* C17: for every geometry the loader assigns and every head position with
\* S >= 1, the offset of the read path and the offset of the write path are
\* both (T * spt + (S - 1)) * ssz on a flat image and disk_header_length +
\* T * (track_header_length + spt * ssz) + track_header_length + (S - 1) * ssz
\* on a headered image, hence equal.
C17_OffsetFormula ==
  probe.stage = "loaded" =>
    LET off == SectorOffset(probe.disk, probe.track, probe.sector)
    IN /\ probe.readOffset # -1 => probe.readOffset = off
       /\ probe.writeOffset # -1 => probe.writeOffset = off
       /\ (probe.readOffset # -1 /\ probe.writeOffset # -1)
            => probe.readOffset = probe.writeOffset

\* both offsets have been computed on a headered image above track 0 and
\* past the first sector
C17_Witness ==
  /\ probe.stage = "loaded"
  /\ probe.disk.isExtendedDSK /\ probe.track > 0 /\ probe.sector > 1
  /\ probe.readOffset # -1 /\ probe.writeOffset = probe.readOffset

\* the image of the example: disk header 256, track headers 256, geometry
\* (40, 9, 512), and the read offset of track 3, sector 4 has been computed
C18_ReadOfTrack3Sector4 ==
  /\ probe.stage = "loaded"
  /\ probe.disk.isExtendedDSK
  /\ probe.disk.headerOffset = 256 /\ probe.disk.trackHeaderSize = 256
  /\ probe.disk.tracks = 40 /\ probe.disk.sectorsPerTrack = 9
  /\ probe.disk.sectorSize = 512
  /\ probe.track = 3 /\ probe.sector = 4
  /\ probe.readOffset # -1

\* C18 as stated: on a headered image with disk-header length 256,
\* track-header length 256 and geometry (40, 9, 512), a read of track 3,
\* sector 4 reads 512 bytes starting at file offset 15680.
C18_ReadAt15680 ==
  C18_ReadOfTrack3Sector4 => probe.readOffset = 15680 /\ probe.readLength = 512

\* C18 amended: on that image a read of track 3, sector 4 reads 512 bytes
\* starting at file offset 16640 = 256 + 3 * (256 + 9 * 512) + 256 + 3 * 512.
C18_ReadAt16640 ==
  C18_ReadOfTrack3Sector4 => probe.readOffset = 16640 /\ probe.readLength = 512

\* the read of track 3, sector 4 of the example image has been set up
C18_Witness == C18_ReadOfTrack3Sector4 /\ probe.readLength = probe.disk.sectorSize

\* C19: for every flat geometry the classifier assigns to a file, and for all
\* T in [0, tracks) and S in [1, spt], gateway_offset(T, S) + ssz <= file
\* length.
C19_FlatGeometryFitsFile ==
  (probe.stage = "loaded" /\ ~probe.card.dskName) =>
    \A T \in 0..(probe.disk.tracks - 1) : \A S \in 1..probe.disk.sectorsPerTrack :
      ReadOffset([currentTrack |-> T, sector |-> S], probe.disk) + probe.disk.sectorSize
        <= probe.disk.size

\* the same for every file length but 174336
C19_FitsButFor174336 ==
  probe.card.size # 174336 => C19_FlatGeometryFitsFile

\* C20: in every reachable state in which the poll has seen the present
\* level of chip-select, the data pins are outputs only while a read cycle
\* is in progress (chip-select asserted with RW at read) or while the 500
\* microsecond hold window has not expired.
C20_PinsDrivenOnlyInReadOrHold ==
  (bus.pinsOutput /\ bus.lastCS = bus.cs) => (bus.cs /\ bus.rw) \/ ~bus.expired

\* a rising edge of chip-select seen by the poll after the hold window has
\* expired does release the pins
C20_ReleasedAtLateRisingEdge ==
  [][(bus.lastCS /\ ~bus.cs /\ bus.expired /\ bus'.lastCS # bus.lastCS)
       => ~bus'.pinsOutput /\ ~bus'.dataBusDriven]_vars

\* the catalog index of a name, -1 for NONE and for a name not in the catalog
IndexOfName(name) ==
  IF \E i \in 1..totalImages : Catalog[i].filename = name
  THEN CatalogEntry(name) - 1
  ELSE -1

\* the descriptor of a slot bound to catalog index i, empty for -1
BoundDisk(i, fl) ==
  IF i = -1 THEN EmptyDisk ELSE LoadedDisk(i, Len(fl[Catalog[i + 1].filename]))

\* C21: a restart after saveConfig() with slot bindings (b0, b1) leaves each
\* slot bound to the catalog entry it was bound to at the save, with its
\* classified geometry, and empty if it was empty.
C21_SaveRestartRoundTrip ==
  [][(config.saved # <<>> /\ config'.saved = <<>>) =>
       \A d \in Drives :
         /\ loadedImageIndex'[d] = config.saved[d + 1]
         /\ disks'[d] = BoundDisk(config.saved[d + 1], files)]_vars

\* loadConfig() alone: with the line of the file on the card, each slot is
\* bound to the catalog entry of its name, and left empty for NONE and for
\* a name absent from the catalog
C21_LoadConfigBindsNames ==
  LET r == LoadConfig(config.file, files)
  IN \A d \in Drives :
       LET i == IF config.file = <<>> THEN -1 ELSE IndexOfName(config.file[d + 1])
       IN r.loadedImageIndex[d] = i /\ r.disks[d] = BoundDisk(i, files)

\* the kinds of step of the engine, read off a pair of states
CommandWriteStep ==
  \E d \in 0..(UINT8 - 1) : \E openOk \in BOOLEAN :
    LET r == WriteCycle(fdc, 0, d, disks[activeDrive], files, openOk)
    IN fdc' = r.fdc /\ files' = r.files

DataWriteStep ==
  \E d \in 0..(UINT8 - 1) : \E openOk \in BOOLEAN :
    LET r == WriteCycle(fdc, 3, d, disks[activeDrive], files, openOk)
    IN fdc' = r.fdc /\ files' = r.files

TickStep ==
  \E openOk \in BOOLEAN :
    fdc' = StateMachine(fdc, disks[activeDrive], files, openOk) /\ files' = files

LeavesIdle == fdc.state = "IDLE" /\ fdc'.state # "IDLE"

EntersIdle == fdc.state # "IDLE" /\ fdc'.state = "IDLE"

SeekExpiry ==
  fdc.state = "SEEKING" /\ fdc.elapsed >= fdc.stepRate /\ fdc' = SeekComplete(fdc)

TransferCompletion ==
  fdc.state \in {"SECTOR_READ_COMPLETE", "SECTOR_WRITE_COMPLETE"} /\ fdc' = TransferDone(fdc)

ForceInterruptStep ==
  \E d \in 0..(UINT8 - 1) :
    /\ AndF0(d) = CMD_FORCE_INT
    /\ fdc' = WriteCycle(fdc, 0, d, disks[activeDrive], files, TRUE).fdc

\* a command write, a Data write or a tick in which the sector gateway
\* refuses the access and stores its error status
GatewayFailureStep ==
  /\ CommandWriteStep \/ DataWriteStep \/ TickStep
  /\ fdc'.intrq /\ ~fdc'.busy
  /\ fdc'.status \in {ST_RNF, ST_WRITE_PROTECT}

\* in IDLE no register read, no write to addresses 1-3 and no tick leaves IDLE
IdleStaysIdle ==
  fdc.state = "IDLE" =>
    /\ \A addr \in 0..3 : HandleRead(fdc, addr).state = "IDLE"
    /\ \A addr \in 1..3 : \A d \in {0, 1, UINT8 - 1} : \A openOk \in BOOLEAN :
         WriteCycle(fdc, addr, d, disks[activeDrive], files, openOk).fdc.state = "IDLE"
    /\ \A openOk \in BOOLEAN :
         StateMachine(fdc, disks[activeDrive], files, openOk).state = "IDLE"

\* C22 as stated: only a Command write takes the engine out of IDLE, and only
\* seek-timer expiry or the completion of a transfer takes it back to IDLE.
C22_OnlyExpiryOrCompletionReturns ==
  [][/\ LeavesIdle => CommandWriteStep
     /\ EntersIdle => SeekExpiry \/ TransferCompletion]_vars

\* C22 (amended): only a Command write takes the engine out of IDLE; it
\* goes back to IDLE only by seek-timer expiry, by the completion of a
\* transfer, by a FORCE INTERRUPT command or by a failure of the sector
\* gateway; in IDLE no read, no write to addresses 1-3, no tick and no
\* drive-select change leaves IDLE.
C22_IdleTransitions ==
  /\ [](IdleStaysIdle)
  /\ [][/\ LeavesIdle => CommandWriteStep
        /\ EntersIdle => \/ SeekExpiry
                         \/ TransferCompletion
                         \/ ForceInterruptStep
                         \/ GatewayFailureStep
        /\ activeDrive' # activeDrive => fdc'.state = fdc.state]_vars

\* an interrupted sector write: back in IDLE by FORCE INTERRUPT
C22_Witness ==
  /\ fdc.state = "IDLE"
  /\ AndF0(fdc.command) = CMD_FORCE_INT
  /\ fdc.dataIndex > 0 /\ fdc.dataIndex < fdc.dataLength

----------------------------------------------------------------------------
(* Type-I scenarios computed with the handlers from a state of the engine  *)

\* the command bytes of RESTORE, SEEK, STEP, STEP IN and STEP OUT
TypeIBytes == 0..(CMD_READ_SECTOR - 1)

StepFamily(c) == AndE0(c) \in {CMD_STEP, CMD_STEP_IN, CMD_STEP_OUT}

\* the engine after command byte c is written to the Command register
Dispatch(f, c) == WriteCycle(f, 0, c, disks[activeDrive], files, TRUE).fdc

\* the step rate of the seek in progress has elapsed
Expire(f) == [f EXCEPT !.elapsed = f.stepRate]

Tick(f) == StateMachine(f, disks[activeDrive], files, TRUE)

\* command bytes that start no operation while the engine is SEEKING: the
\* codes DecodeCommand() does not implement, and the sector commands when
\* no image is bound
IdleBytes ==
  {224, 240} \cup (IF disks[activeDrive].size = 0 THEN {128, 144, 160, 176} ELSE {})

\* what the host does while the seek is timed: nothing, a Status read, a
\* Data read, a Sector write, a Data write, or a command byte of IdleBytes
Interferences ==
  {<<"none", 0>>, <<"read", 0>>, <<"read", 3>>, <<"write2", 1>>, <<"write3", 7>>}
    \cup {<<"command", x>> : x \in IdleBytes}

QuietInterferences == {i \in Interferences : i[1] # "command"}

Interfere(f, i) ==
  CASE i[1] = "none"    -> f
    [] i[1] = "read"    -> HandleRead(f, i[2])
    [] i[1] = "write2"  -> WriteCycle(f, 2, i[2], disks[activeDrive], files, TRUE).fdc
    [] i[1] = "write3"  -> WriteCycle(f, 3, i[2], disks[activeDrive], files, TRUE).fdc
    [] i[1] = "command" -> Dispatch(f, i[2])

\* command c written, the host acting as i during the seek, then the tick
\* that finds the step rate elapsed
SeekRun(f, c, i) == Tick(Expire(Interfere(Dispatch(f, c), i)))

TrackWriteStep ==
  \E d \in 0..(UINT8 - 1) :
    fdc' = WriteCycle(fdc, 1, d, disks[activeDrive], files, TRUE).fdc

RestoreOrSeekDispatch ==
  \E d \in 0..(UINT8 - 1) :
    /\ AndF0(d) \in {CMD_RESTORE, CMD_SEEK}
    /\ fdc' = Dispatch(fdc, d)

\* on the steps taken: the Track register changes by a write to address 1,
\* at the dispatch of RESTORE, or at seek-timer expiry with RESTORE, SEEK or
\* a code with bit 4 set in the command latch
TrackFrameOnSteps ==
  fdc'.track # fdc.track =>
    \/ TrackWriteStep
    \/ RestoreOrSeekDispatch
    \/ SeekExpiry /\ (AndF0(fdc.command) = CMD_RESTORE \/ HasBit(fdc.command, 16))

\* a step command without the update bit, the host acting as i during the
\* seek: the head moves one track in the direction of the command and the
\* Track register is left alone
StepKeepsTrack(c, i) ==
  LET g == Dispatch(fdc, c)
      e == SeekRun(fdc, c, i)
  IN /\ e.state = "IDLE"
     /\ e.track = fdc.track
     /\ e.currentTrack = StepTrack(g)

\* READ/WRITE SECTOR(S) and READ ADDRESS leave the Track register alone, at
\* dispatch, during the transfer and at its completion
SectorCommandsKeepTrack ==
  \A c \in {CMD_READ_SECTOR, CMD_READ_SECTORS, CMD_WRITE_SECTOR, CMD_WRITE_SECTORS,
            CMD_READ_ADDRESS} :
    LET g == Dispatch(fdc, c)
    IN /\ g.track = fdc.track
       /\ HandleRead(g, 3).track = fdc.track
       /\ WriteCycle(g, 3, 0, disks[activeDrive], files, TRUE).fdc.track = fdc.track
       /\ (g.state # "SEEKING" => Tick(g).track = fdc.track)

\* C23: the Track register changes only by a write to address 1, by RESTORE
\* or SEEK, or at the completion of a step command with bit 4 set; a step
\* command with bit 4 clear moves current_track and leaves the Track
\* register unchanged; sector and read-address commands never change it.
C23_TrackRegisterFrame ==
  /\ [](\A c \in TypeIBytes : \A i \in Interferences :
          (StepFamily(c) /\ ~HasBit(c, 16)) => StepKeepsTrack(c, i))
  /\ [](fdc.state # "SEEKING" => SectorCommandsKeepTrack)
  /\ [][TrackFrameOnSteps]_vars

\* the same with the host writing no command byte while the seek is timed
C23_FrameWithoutCommandBytes ==
  /\ [](\A c \in TypeIBytes : \A i \in QuietInterferences :
          (StepFamily(c) /\ ~HasBit(c, 16)) => StepKeepsTrack(c, i))
  /\ [](fdc.state # "SEEKING" => SectorCommandsKeepTrack)
  /\ [][TrackFrameOnSteps]_vars

\* C24: the dispatch of a Type-I command sets BUSY, clears DRQ, records the
\* start time and sets SEEKING, and changes neither current_track nor the
\* Track register; the track update waits for the step-rate timer.
C24_TypeIDispatch ==
  \A c \in TypeIBytes :
    LET g == Dispatch(fdc, c)
    IN /\ g.busy /\ ~g.drq
       /\ g.elapsed = 0
       /\ g.state = "SEEKING"
       /\ g.currentTrack = fdc.currentTrack
       /\ g.track = fdc.track
       /\ Tick(g) = g

\* what the dispatch does do: BUSY, start time and SEEKING for every Type-I
\* command, DRQ left as it was, and the tracks untouched except by RESTORE
C24_DispatchExceptRestoreAndDrq ==
  \A c \in TypeIBytes :
    LET g == Dispatch(fdc, c)
    IN /\ g.busy /\ g.drq = fdc.drq
       /\ g.elapsed = 0
       /\ g.state = "SEEKING"
       /\ AndF0(c) # CMD_RESTORE => g.currentTrack = fdc.currentTrack /\ g.track = fdc.track
       /\ AndF0(c) = CMD_RESTORE => g.currentTrack = 0 /\ g.track = 0
       /\ Tick(g) = g

\* the step period of rate bits r, in microseconds
RateOf(r) ==
  CASE r = 0 -> 6000
    [] r = 1 -> 12000
    [] r = 2 -> 20000
    [] r = 3 -> 30000

\* values of now - t0 at a tick: at dispatch, on both sides of the period
\* of rate bits r, and after the longest period
TickTimes(r) == {0, RateOf(r) - 1, RateOf(r), RateOf(3) + 1}

\* the Type-I command bytes with the head-load and verify bits clear
TimedBytes == {c \in TypeIBytes : c % 16 < 4}

\* command c dispatched, no Command write afterwards, a tick at now - t0 = t:
\* before the period of its rate bits the engine stays as it is, SEEKING
\* and BUSY; from the period on the tick ends in IDLE with INTRQ
SeekTimed(c, i, t) ==
  LET at == [Interfere(Dispatch(fdc, c), i) EXCEPT !.elapsed = t]
      e  == Tick(at)
  IN IF t < RateOf(c % 4)
     THEN e = at /\ e.state = "SEEKING" /\ e.busy
     ELSE e.state = "IDLE" /\ e.intrq /\ ~e.busy

\* while a seek is timed and no Command write occurs, the time since
\* dispatch does not go back, the period is kept, and SEEKING is left only
\* by the tick that finds the period elapsed
SeekKeepsTiming ==
  fdc.state = "SEEKING" =>
    \/ /\ fdc'.elapsed >= fdc.elapsed
       /\ fdc'.stepRate = fdc.stepRate
       /\ fdc'.state = "SEEKING" \/ (SeekExpiry /\ fdc'.intrq /\ ~fdc'.busy)
    \/ CommandWriteStep

\* C25: a Type-I command with rate bits r keeps the engine SEEKING and BUSY
\* at every tick earlier than rate(r) = 6000, 12000, 20000, 30000 us after
\* dispatch, and the first tick at or after rate(r) ends in IDLE with INTRQ;
\* with time advancing and ticks occurring, a seek does not stay at the
\* same point of its period, so it completes unless a new command is written.
C25_SeekTiming ==
  /\ [](\A c \in TimedBytes : \A i \in QuietInterferences : \A t \in TickTimes(c % 4) :
          SeekTimed(c, i, t))
  /\ [][SeekKeepsTiming]_vars
  /\ \A e \in {0, 6000, 12000, 18000, 20000, 24000, 30000} :
       [](fdc.state = "SEEKING" /\ fdc.elapsed = e =>
            <>(fdc.state # "SEEKING" \/ fdc.elapsed # e))

\* a RESTORE with rate bits 3 completed by the tick 30000 us after dispatch
C25_Witness ==
  /\ fdc.state = "IDLE" /\ fdc.intrq /\ ~fdc.busy
  /\ fdc.command = 3
  /\ fdc.elapsed = 30000

\* READ ADDRESS written in the current state, six Data reads, one tick
ReadAddressRun(c) ==
  LET g  == Dispatch(fdc, c)
      r6 == DataReads(g, READ_ADDRESS_LENGTH)
  IN /\ DataValues(g, READ_ADDRESS_LENGTH) = <<fdc.currentTrack, 0, 1, 2, 0, 0>>
     /\ \A k \in 0..(READ_ADDRESS_LENGTH - 1) : DataReads(g, k).drq
     /\ ~r6.drq
     /\ \A openOk \in BOOLEAN :
          LET e == StateMachine(r6, disks[activeDrive], files, openOk)
          IN /\ e.state = "IDLE" /\ e.intrq /\ ~e.busy
             /\ e.sector = fdc.sector
             /\ e = TransferDone(r6)

\* C26: READ ADDRESS, after any history of earlier commands, presents the six
\* bytes [current_track, 0, 1, 2, 0, 0] through six Data reads with DRQ
\* asserted, clears DRQ on the sixth, and at the next tick completes in IDLE
\* with INTRQ, without a sector access and with the Sector register unchanged.
C26_ReadAddress ==
  \A c \in CMD_READ_ADDRESS..(CMD_READ_ADDRESS + 15) : ReadAddressRun(c)

\* the same when no multi-sector transfer was left unfinished
C26_ReadAddressAfterFinishedTransfers ==
  (~fdc.multiSector \/ fdc.sectorsRemaining <= 1) => C26_ReadAddress

\* the drive the claim selects when the lines DS0, DS1 are asserted or not
ClaimedDrive(drive, ds0Asserted, ds1Asserted) ==
  IF ds0Asserted THEN 0 ELSE IF ds1Asserted THEN 1 ELSE drive

\* C27: the drive-select lines are active-low; at each poll the active drive
\* becomes 0 if DS0 is asserted, else 1 if DS1 is asserted, else stays; with
\* both asserted drive 0 wins; the active drive is always 0 or 1.
C27_DriveSelect ==
  /\ activeDrive \in {0, 1}
  /\ \A ds0High \in BOOLEAN : \A ds1High \in BOOLEAN :
       SelectedDrive(activeDrive, ds0High, ds1High)
         = ClaimedDrive(activeDrive, ~ds0High, ~ds1High)

\* the poll with a line taken as asserted when it reads high
C27_DriveSelectActiveHigh ==
  /\ activeDrive \in {0, 1}
  /\ \A ds0High \in BOOLEAN : \A ds1High \in BOOLEAN :
       SelectedDrive(activeDrive, ds0High, ds1High)
         = ClaimedDrive(activeDrive, ds0High, ds1High)

\* arguments of loadImage() and ejectDrive(): the slots and one beyond, the
\* catalog indexes and one on each side
SlotArgs == 0..MAX_DRIVES

IndexArgs == (-1)..totalImages

\* loadImage(slot, index) succeeds exactly when slot and index are in range
\* and the file opens, and then binds the slot to the entry, unprotected
LoadImageSucceedsIff ==
  \A slot \in SlotArgs : \A index \in IndexArgs : \A openOk \in BOOLEAN :
    LET r == LoadImageResult(disks, loadedImageIndex, slot, index, files, openOk)
    IN /\ r.ok <=> (slot \in {0, 1} /\ index >= 0 /\ index < totalImages /\ openOk)
       /\ r.ok => /\ r.loadedImageIndex[slot] = index
                  /\ r.disks[slot].filename = Catalog[index + 1].filename
                  /\ r.disks[slot].size = Len(files[Catalog[index + 1].filename])
                  /\ ~r.disks[slot].writeProtected

\* ejectDrive(slot) leaves the slot empty, and READ / WRITE SECTOR(S) written
\* with that drive active then fail with RNF and INTRQ, starting no transfer
EjectThenSectorCommandsFail ==
  \A slot \in {0, 1} :
    LET e == EjectResult(disks, loadedImageIndex, slot)
    IN /\ e.loadedImageIndex[slot] = -1
       /\ e.disks[slot].size = 0
       /\ \A c \in CMD_READ_SECTOR..(CMD_READ_ADDRESS - 1) : \A openOk \in BOOLEAN :
            LET r == WriteCycle(fdc, 0, c, e.disks[slot], files, openOk)
            IN /\ r.fdc.status = ST_RNF /\ HasBit(StatusValue(r.fdc), ST_RNF)
               /\ r.fdc.intrq
               /\ r.fdc.state = fdc.state
               /\ r.files = files

\* C28: loadImage(slot, index) succeeds iff slot is 0 or 1, index is in
\* [0, totalImages) and the file opens, and then binds the slot to that
\* index with write-protect false; ejectDrive(slot) leaves the slot empty
\* (index -1, size 0) and READ SECTOR / WRITE SECTOR on that drive then fail
\* with RNF and INTRQ.
C28_LoadAndEject == LoadImageSucceedsIff /\ EjectThenSectorCommandsFail

\* drive 0 was bound and protected, then ejected, and a READ SECTOR written
\* afterwards stored RNF
C28_Witness ==
  /\ loadedImageIndex[0] = -1 /\ disks[0].size = 0
  /\ disks[0].sectorSize # 0
  /\ activeDrive = 0
  /\ AndF0(fdc.command) = CMD_READ_SECTOR
  /\ fdc.status = ST_RNF /\ fdc.intrq

\* C29: a loadImage that fails (slot out of range, index out of range, or a
\* file that does not open) leaves both slot bindings as they were: loaded
\* index, file name, size and geometry of each slot.
C29_FailedLoadKeepsSlots ==
  \A slot \in SlotArgs : \A index \in IndexArgs : \A openOk \in BOOLEAN :
    (slot >= MAX_DRIVES \/ index < 0 \/ index >= totalImages \/ ~openOk) =>
      LET r == LoadImageResult(disks, loadedImageIndex, slot, index, files, openOk)
      IN /\ ~r.ok
         /\ r.loadedImageIndex = loadedImageIndex
         /\ r.disks = disks

\* both slots bound when the load is attempted
C29_Witness ==
  /\ host = "slots"
  /\ loadedImageIndex[0] = 0 /\ loadedImageIndex[1] = 1
  /\ disks[0].size # 0 /\ disks[1].size # 0

\* the direction of step command c dispatched in engine state f
StepDirection(f, c) ==
  CASE AndE0(c) = CMD_STEP_IN  -> 1
    [] AndE0(c) = CMD_STEP_OUT -> -1
    [] OTHER -> f.direction

\* the track the head is on when the seek started by command c in engine
\* state f completes: 0 for RESTORE, the Data register as it was when the
\* command was written for SEEK, one step in the command's direction kept
\* in [0, MAX_TRACKS] otherwise
TargetTrack(f, c) ==
  CASE AndF0(c) = CMD_RESTORE -> 0
    [] AndF0(c) = CMD_SEEK    -> f.data
    [] OTHER -> Max(0, Min(MAX_TRACKS, f.currentTrack + StepDirection(f, c)))

\* the seek started by c, the host acting as i meanwhile, ends with the
\* update of c
UpdateBelongsTo(c, i) ==
  LET e == SeekRun(fdc, c, i)
      t == TargetTrack(fdc, c)
  IN /\ e.state = "IDLE"
     /\ e.currentTrack = t
     /\ e.track = IF StepFamily(c) /\ ~HasBit(c, 16) THEN fdc.track ELSE t

\* C30: the track update applied at seek-timer expiry is that of the Type-I
\* command that started the seek, whatever registers the host writes or
\* reads and whatever non-starting command byte it writes while SEEKING.
C30_UpdateBelongsToCommand ==
  \A c \in TimedBytes : \A i \in Interferences : UpdateBelongsTo(c, i)

\* RESTORE and the step commands (not stepping out of track 0) with the host
\* writing no command byte during the seek
C30_RestoreAndStepUndisturbed ==
  \A c \in TimedBytes : \A i \in QuietInterferences :
    (AndF0(c) # CMD_SEEK /\ fdc.currentTrack + StepDirection(fdc, c) >= 0)
      => UpdateBelongsTo(c, i)

\* what SEEK does: the head goes to the last byte written on the bus before
\* the expiry, the command byte itself if nothing else was written
C30_SeekGoesToLastByteWritten ==
  \A c \in {x \in TimedBytes : AndF0(x) = CMD_SEEK} :
    /\ SeekRun(fdc, c, <<"none", 0>>).currentTrack = c
    /\ SeekRun(fdc, c, <<"read", 0>>).currentTrack = c
    /\ SeekRun(fdc, c, <<"write2", 1>>).currentTrack = 1
    /\ SeekRun(fdc, c, <<"write3", 7>>).currentTrack = 7

\* what may happen to the drive selection and to the slots between the
\* WRITE command and the last Data write: nothing, a poll of the
\* drive-select lines, the active slot bound to a catalog entry, the active
\* slot ejected; each gives the active drive and the descriptors afterwards
SlotChanges ==
  {<<activeDrive, disks>>}
    \cup {<<SelectedDrive(activeDrive, h0, h1), disks>> : h0 \in BOOLEAN, h1 \in BOOLEAN}
    \cup {<<activeDrive,
            LoadImageResult(disks, loadedImageIndex, activeDrive, idx, files, TRUE).disks>> :
            idx \in 0..(totalImages - 1)}
    \cup {<<activeDrive, EjectResult(disks, loadedImageIndex, activeDrive).disks>>}

\* WRITE SECTOR written with descriptor d0 active, all bytes of B but the
\* last written, the change ch, then the last byte: the files afterwards
\* are the files before with B at sector (T, S) of the image of d0
WritePersistsTo(d0, B, ch) ==
  LET ssz  == d0.sectorSize
      w0   == AfterCommand(fdc, CMD_WRITE_SECTOR, d0, files)
      wP   == DataWrites(w0, d0, B, ssz - 1)
      wN   == WriteCycle(wP.fdc, 3, B[ssz - 1], ch[2][ch[1]], wP.files, TRUE)
      off  == SectorOffset(d0, fdc.currentTrack, fdc.sector)
  IN /\ w0.fdc.dataLength = ssz
     /\ wN.fdc.state = "SECTOR_WRITE_COMPLETE"
     /\ wN.files = [files EXCEPT ![d0.filename] = FileWrite(@, off, B, ssz)]

\* the engine is idle, the active image is bound and writable and the
\* addressed sector lies in its file
WritableSector ==
  /\ fdc.state = "IDLE"
  /\ ~disks[activeDrive].writeProtected
  /\ SectorInFile(disks[activeDrive], files, fdc.currentTrack, fdc.sector)

\* C31: a sector write persists exactly the dataLength bytes the host
\* supplied to the image bound to the active drive when WRITE was
\* dispatched, even if the drive-select lines change or a slot is rebound
\* or ejected before the final Data write.
C31_WriteGoesToImageOfDispatch ==
  WritableSector =>
    \A B \in [0..(disks[activeDrive].sectorSize - 1) -> RoundTripBytes] :
      \A ch \in SlotChanges : WritePersistsTo(disks[activeDrive], B, ch)

\* the same when the selection and the slots stay as they are
C31_WriteWithoutChange ==
  WritableSector =>
    \A B \in [0..(disks[activeDrive].sectorSize - 1) -> RoundTripBytes] :
      WritePersistsTo(disks[activeDrive], B, <<activeDrive, disks>>)

\* C32: the length of a staged transfer (dataLength, and the byte count a
\* gateway transfer moves into or out of the staging buffer) is at most the
\* 1024 bytes of the buffer for every geometry loadImage can bind, the
\* sector sizes 128 << code taken from a track header included.
C32_TransfersFitStagingBuffer ==
  probe.stage = "loaded" =>
    /\ probe.disk.sectorSize <= SECTOR_BUFFER_SIZE
    /\ probe.readLength <= SECTOR_BUFFER_SIZE
    /\ probe.writeLength <= SECTOR_BUFFER_SIZE

\* the same for the files without a track header and for the headers with a
\* size code of at most 3
C32_FitsUpToCode3 ==
  (probe.stage = "loaded" /\ (probe.disk.isExtendedDSK => probe.card.hdrSizeCode <= 3)) =>
    /\ probe.disk.sectorSize <= SECTOR_BUFFER_SIZE
    /\ probe.readLength <= SECTOR_BUFFER_SIZE
    /\ probe.writeLength <= SECTOR_BUFFER_SIZE

\* the cursor of the staging buffer never passes the staged length
C32_CursorWithinLength == fdc.dataIndex <= fdc.dataLength

\* C33: a sector write never writes outside [0, file length) of the bound
\* image: no step changes the length of a file, wherever the head is.
C33_FileLengthNeverChanges ==
  [][\A n \in FileNames : Len(files'[n]) = Len(files[n])]_vars

\* a write to a sector that lies inside the file of the active image
\* changes bytes of that sector only
C33_WriteInsideFileStaysInside ==
  [][LET disk == disks[activeDrive]
         off  == SectorOffset(disk, fdc.currentTrack, fdc.sector)
     IN (files' # files /\ SectorInFile(disk, files, fdc.currentTrack, fdc.sector)) =>
          /\ \A n \in FileNames : Len(files'[n]) = Len(files[n])
          /\ \A n \in FileNames : \A j \in 1..Len(files[n]) :
               files'[n][j] # files[n][j] =>
                 n = disk.filename /\ j > off /\ j <= off + disk.sectorSize]_vars

\* the descriptor carries the geometry detectFormat() gives the file size
SizeBasedGeometry(disk, card) ==
  LET g == DetectFormat(card.size)
  IN /\ disk.tracks = g.tracks
     /\ disk.sectorsPerTrack = g.sectorsPerTrack
     /\ disk.sectorSize = g.sectorSize

\* the parse of the header-prefixed format fails on the file of the card: a
\* read comes short or a signature is missing
ParseFails(card) ==
  card.size < 256 \/ ~card.diskSignature \/ card.size < 512 \/ ~card.trackSignature

\* C34: the header overlay is all-or-nothing: when the parse of the header
\* fails at any step the bound descriptor keeps the whole size-based
\* geometry with has-header false; tracks, sectors per track and sector size
\* come from the header only when the descriptor is marked as headered.
C34_HeaderOverlayAllOrNothing ==
  probe.stage = "loaded" =>
    /\ (probe.card.dskName /\ ParseFails(probe.card)) => ~probe.disk.isExtendedDSK
    /\ ~probe.disk.isExtendedDSK => SizeBasedGeometry(probe.disk, probe.card)

\* the same for the failures before the disk header is accepted: a file
\* shorter than the disk header or without the disk signature
C34_NothingBeforeDiskSignature ==
  (probe.stage = "loaded" /\ (probe.card.size < 256 \/ ~probe.card.diskSignature)) =>
    /\ ~probe.disk.isExtendedDSK
    /\ SizeBasedGeometry(probe.disk, probe.card)

\* a failure after the disk header was accepted leaves has-header false,
\* sectors per track and sector size as detected, and the track count of
\* the header
C34_TracksKeptFromFailedParse ==
  (probe.stage = "loaded" /\ probe.card.dskName /\ ParseFails(probe.card)
     /\ probe.card.size >= 256 /\ probe.card.diskSignature) =>
    /\ ~probe.disk.isExtendedDSK
    /\ probe.disk.tracks = probe.card.hdrTracks
    /\ probe.disk.sectorsPerTrack = DetectFormat(probe.card.size).sectorsPerTrack
    /\ probe.disk.sectorSize = DetectFormat(probe.card.size).sectorSize

====
